---- MODULE Spec2Model ----
(***************************************************************************)
(* Model of the class generator of pilates-class-builder                   *)
(* (src/class_builder.py): ClassBuilder.generate_class and the helpers it  *)
(* drives.  Python lists are sequences; list indices that the source       *)
(* stores in variables (secondary_eligible, start_idx, idx) keep their     *)
(* 0-based values and are read through At.  Python None is None for        *)
(* string-valued variables and the empty sequence for optional arguments   *)
(* (<<>> is None, <<v>> is the value v).  Floating point quantities are    *)
(* kept exact in integers: level ranks and random draws are scaled by      *)
(* 10 and 100, section time by TimeScale.                                  *)
(***************************************************************************)
EXTENDS Integers, Sequences, FiniteSets, TLC

None == "None"

At(s, i) == s[i + 1]

InSeq(s, x) == \E i \in DOMAIN s : s[i] = x

Range(s) == {s[i] : i \in DOMAIN s}

Min2(a, b) == IF a <= b THEN a ELSE b

Max2(a, b) == IF a >= b THEN a ELSE b

FIXED_FIRST == [id |-> "footwork", name |-> "Footwork", typical_minutes |-> 5]

FIXED_LAST == [id |-> "stretch", name |-> "Stretch", typical_minutes |-> 5]

FLEXIBLE_SECTIONS ==
  << [id |-> "bridges", name |-> "Bridges", typical_minutes |-> 5],
     [id |-> "abdominals", name |-> "Abdominals", typical_minutes |-> 7],
     [id |-> "plank", name |-> "Plank", typical_minutes |-> 5],
     [id |-> "upper_body", name |-> "Upper Body", typical_minutes |-> 7],
     [id |-> "lower_body", name |-> "Lower Body", typical_minutes |-> 7],
     [id |-> "lateral_line", name |-> "Lateral Line", typical_minutes |-> 5],
     [id |-> "prone_extension", name |-> "Prone/Extension", typical_minutes |-> 5],
     [id |-> "full_body", name |-> "Full Body Integration", typical_minutes |-> 5] >>

\* level_num is scaled by 10, exercise_count_multiplier by 100
EXPERIENCE_LEVELS ==
  << [id |-> "beginner", name |-> "Beginner (Level 1)", level_num |-> 10, exercise_count_multiplier |-> 80, max_transitions |-> 6],
     [id |-> "intermediate", name |-> "Intermediate (Level 1.5)", level_num |-> 15, exercise_count_multiplier |-> 100, max_transitions |-> 6],
     [id |-> "advanced", name |-> "Advanced (Level 2)", level_num |-> 20, exercise_count_multiplier |-> 115, max_transitions |-> 6],
     [id |-> "advanced_plus", name |-> "Advanced+ (Level 2.5)", level_num |-> 25, exercise_count_multiplier |-> 125, max_transitions |-> 8] >>

EXERCISES ==
  <<
    [id |-> "fw_heels_bilateral", section |-> "footwork", equipment |-> <<"reformer", "chair">>, level |-> "beginner", spring_setting |-> "3R or 2R+1B", duration_seconds |-> 45],
    [id |-> "fw_toes_bilateral", section |-> "footwork", equipment |-> <<"reformer", "chair">>, level |-> "beginner", spring_setting |-> "3R or 2R+1B", duration_seconds |-> 45],
    [id |-> "fw_arches", section |-> "footwork", equipment |-> <<"reformer", "chair">>, level |-> "beginner", spring_setting |-> "3R or 2R+1B", duration_seconds |-> 45],
    [id |-> "fw_single_leg", section |-> "footwork", equipment |-> <<"reformer", "chair">>, level |-> "intermediate", spring_setting |-> "2R or 1R+1B", duration_seconds |-> 60],
    [id |-> "fw_standing", section |-> "footwork", equipment |-> <<"springboard">>, level |-> "beginner", spring_setting |-> "", duration_seconds |-> 60],
    [id |-> "fw_side_lying", section |-> "footwork", equipment |-> <<"reformer">>, level |-> "intermediate", spring_setting |-> "1R+1B", duration_seconds |-> 60],
    [id |-> "br_articulating", section |-> "bridges", equipment |-> <<"mat">>, level |-> "beginner", spring_setting |-> "", duration_seconds |-> 60],
    [id |-> "br_pelvic_lift", section |-> "bridges", equipment |-> <<"mat">>, level |-> "beginner", spring_setting |-> "", duration_seconds |-> 45],
    [id |-> "br_single_leg", section |-> "bridges", equipment |-> <<"mat">>, level |-> "advanced", spring_setting |-> "", duration_seconds |-> 60],
    [id |-> "br_shoulder_bridge", section |-> "bridges", equipment |-> <<"mat", "reformer">>, level |-> "intermediate", spring_setting |-> "1R+1B", duration_seconds |-> 60],
    [id |-> "br_reformer_bilateral", section |-> "bridges", equipment |-> <<"reformer">>, level |-> "beginner", spring_setting |-> "1R+1B", duration_seconds |-> 60],
    [id |-> "br_reformer_unilateral", section |-> "bridges", equipment |-> <<"reformer">>, level |-> "intermediate", spring_setting |-> "1R+1B", duration_seconds |-> 60],
    [id |-> "br_hamstring_curl", section |-> "bridges", equipment |-> <<"chair">>, level |-> "intermediate", spring_setting |-> "2@2", duration_seconds |-> 60],
    [id |-> "br_pedal_bridge", section |-> "bridges", equipment |-> <<"chair">>, level |-> "intermediate", spring_setting |-> "2@2", duration_seconds |-> 60],
    [id |-> "br_frog_back", section |-> "bridges", equipment |-> <<"chair">>, level |-> "intermediate", spring_setting |-> "2@2", duration_seconds |-> 60],
    [id |-> "br_trx_hip_lift", section |-> "bridges", equipment |-> <<"trx">>, level |-> "intermediate", spring_setting |-> "", duration_seconds |-> 60],
    [id |-> "ab_hundred_prep", section |-> "abdominals", equipment |-> <<"mat", "reformer">>, level |-> "beginner", spring_setting |-> "1R or 1B", duration_seconds |-> 60],
    [id |-> "ab_chest_lift", section |-> "abdominals", equipment |-> <<"mat", "reformer">>, level |-> "beginner", spring_setting |-> "1R", duration_seconds |-> 45],
    [id |-> "ab_supine_twist", section |-> "abdominals", equipment |-> <<"mat">>, level |-> "beginner", spring_setting |-> "", duration_seconds |-> 45],
    [id |-> "ab_dead_bug", section |-> "abdominals", equipment |-> <<"mat">>, level |-> "beginner", spring_setting |-> "", duration_seconds |-> 60],
    [id |-> "ab_hundred", section |-> "abdominals", equipment |-> <<"mat", "reformer">>, level |-> "intermediate", spring_setting |-> "1R or 1B", duration_seconds |-> 90],
    [id |-> "ab_roll_up", section |-> "abdominals", equipment |-> <<"mat", "reformer">>, level |-> "intermediate", spring_setting |-> "1R", duration_seconds |-> 60],
    [id |-> "ab_series_five", section |-> "abdominals", equipment |-> <<"mat">>, level |-> "intermediate", spring_setting |-> "", duration_seconds |-> 120],
    [id |-> "ab_coordination", section |-> "abdominals", equipment |-> <<"reformer">>, level |-> "intermediate", spring_setting |-> "1R+1B", duration_seconds |-> 60],
    [id |-> "ab_teaser", section |-> "abdominals", equipment |-> <<"mat", "reformer">>, level |-> "intermediate", spring_setting |-> "1R", duration_seconds |-> 60],
    [id |-> "ab_criss_cross", section |-> "abdominals", equipment |-> <<"mat">>, level |-> "intermediate", spring_setting |-> "", duration_seconds |-> 60],
    [id |-> "ab_short_box_round", section |-> "abdominals", equipment |-> <<"reformer">>, level |-> "intermediate", spring_setting |-> "1R", duration_seconds |-> 60],
    [id |-> "ab_short_box_flat", section |-> "abdominals", equipment |-> <<"reformer">>, level |-> "intermediate", spring_setting |-> "1R", duration_seconds |-> 60],
    [id |-> "ab_short_box_twist", section |-> "abdominals", equipment |-> <<"reformer">>, level |-> "intermediate", spring_setting |-> "1R", duration_seconds |-> 60],
    [id |-> "ab_short_box_side", section |-> "abdominals", equipment |-> <<"reformer">>, level |-> "intermediate", spring_setting |-> "1R", duration_seconds |-> 60],
    [id |-> "pl_front_plank", section |-> "plank", equipment |-> <<"mat">>, level |-> "beginner", spring_setting |-> "", duration_seconds |-> 30],
    [id |-> "pl_knee_stretch", section |-> "plank", equipment |-> <<"reformer">>, level |-> "beginner", spring_setting |-> "1R+1B", duration_seconds |-> 45],
    [id |-> "pl_long_stretch", section |-> "plank", equipment |-> <<"reformer">>, level |-> "intermediate", spring_setting |-> "1R+1B", duration_seconds |-> 45],
    [id |-> "pl_up_stretch", section |-> "plank", equipment |-> <<"reformer">>, level |-> "advanced", spring_setting |-> "1R+1B", duration_seconds |-> 45],
    [id |-> "pl_elephant", section |-> "plank", equipment |-> <<"reformer">>, level |-> "intermediate", spring_setting |-> "1R+1B", duration_seconds |-> 45],
    [id |-> "pl_pike", section |-> "plank", equipment |-> <<"chair", "mat">>, level |-> "intermediate", spring_setting |-> "1@2", duration_seconds |-> 45],
    [id |-> "pl_mountain_climber", section |-> "plank", equipment |-> <<"chair">>, level |-> "intermediate", spring_setting |-> "1@2", duration_seconds |-> 45],
    [id |-> "ub_arm_circles", section |-> "upper_body", equipment |-> <<"mat">>, level |-> "beginner", spring_setting |-> "", duration_seconds |-> 45],
    [id |-> "ub_arm_work", section |-> "upper_body", equipment |-> <<"reformer">>, level |-> "beginner", spring_setting |-> "1R or 1B", duration_seconds |-> 90],
    [id |-> "ub_chest_expansion", section |-> "upper_body", equipment |-> <<"reformer", "springboard">>, level |-> "beginner", spring_setting |-> "1R", duration_seconds |-> 45],
    [id |-> "ub_rowing", section |-> "upper_body", equipment |-> <<"reformer">>, level |-> "intermediate", spring_setting |-> "1R", duration_seconds |-> 90],
    [id |-> "ub_hug_a_tree", section |-> "upper_body", equipment |-> <<"reformer", "springboard">>, level |-> "beginner", spring_setting |-> "1R", duration_seconds |-> 45],
    [id |-> "ub_push_ups", section |-> "upper_body", equipment |-> <<"mat", "chair">>, level |-> "intermediate", spring_setting |-> "", duration_seconds |-> 45],
    [id |-> "ub_trx_rows", section |-> "upper_body", equipment |-> <<"trx">>, level |-> "intermediate", spring_setting |-> "", duration_seconds |-> 45],
    [id |-> "lb_leg_circles", section |-> "lower_body", equipment |-> <<"mat", "reformer">>, level |-> "beginner", spring_setting |-> "2R", duration_seconds |-> 60],
    [id |-> "lb_leg_press", section |-> "lower_body", equipment |-> <<"springboard">>, level |-> "beginner", spring_setting |-> "", duration_seconds |-> 60],
    [id |-> "lb_standing_leg", section |-> "lower_body", equipment |-> <<"reformer", "chair">>, level |-> "intermediate", spring_setting |-> "1R+1B", duration_seconds |-> 90],
    [id |-> "lb_side_splits", section |-> "lower_body", equipment |-> <<"reformer">>, level |-> "intermediate", spring_setting |-> "1R", duration_seconds |-> 60],
    [id |-> "lb_lunges", section |-> "lower_body", equipment |-> <<"reformer", "chair">>, level |-> "intermediate", spring_setting |-> "1R+1B", duration_seconds |-> 60],
    [id |-> "lb_scooter", section |-> "lower_body", equipment |-> <<"reformer">>, level |-> "beginner", spring_setting |-> "1R+1B", duration_seconds |-> 45],
    [id |-> "ll_side_lying", section |-> "lateral_line", equipment |-> <<"mat", "reformer">>, level |-> "beginner", spring_setting |-> "1R", duration_seconds |-> 90],
    [id |-> "ll_mermaid", section |-> "lateral_line", equipment |-> <<"reformer", "mat", "chair">>, level |-> "beginner", spring_setting |-> "1R", duration_seconds |-> 60],
    [id |-> "ll_side_bend", section |-> "lateral_line", equipment |-> <<"mat">>, level |-> "intermediate", spring_setting |-> "", duration_seconds |-> 45],
    [id |-> "ll_kneeling_side", section |-> "lateral_line", equipment |-> <<"reformer">>, level |-> "intermediate", spring_setting |-> "1R", duration_seconds |-> 60],
    [id |-> "pe_swan", section |-> "prone_extension", equipment |-> <<"mat", "reformer">>, level |-> "intermediate", spring_setting |-> "1B", duration_seconds |-> 45],
    [id |-> "pe_swimming", section |-> "prone_extension", equipment |-> <<"mat">>, level |-> "beginner", spring_setting |-> "", duration_seconds |-> 45],
    [id |-> "pe_pulling_straps", section |-> "prone_extension", equipment |-> <<"reformer">>, level |-> "beginner", spring_setting |-> "1R", duration_seconds |-> 60],
    [id |-> "pe_back_extension", section |-> "prone_extension", equipment |-> <<"chair", "barrel">>, level |-> "intermediate", spring_setting |-> "1@2", duration_seconds |-> 60],
    [id |-> "pe_rocking", section |-> "prone_extension", equipment |-> <<"mat">>, level |-> "intermediate", spring_setting |-> "", duration_seconds |-> 45],
    [id |-> "fb_single_leg_stretch", section |-> "full_body", equipment |-> <<"mat">>, level |-> "beginner", spring_setting |-> "", duration_seconds |-> 60],
    [id |-> "fb_rolling_like_ball", section |-> "full_body", equipment |-> <<"mat">>, level |-> "beginner", spring_setting |-> "", duration_seconds |-> 45],
    [id |-> "fb_full_body_stretch", section |-> "full_body", equipment |-> <<"reformer">>, level |-> "beginner", spring_setting |-> "1R", duration_seconds |-> 60],
    [id |-> "fb_control_balance", section |-> "full_body", equipment |-> <<"mat">>, level |-> "advanced", spring_setting |-> "", duration_seconds |-> 60],
    [id |-> "fb_star", section |-> "full_body", equipment |-> <<"reformer">>, level |-> "advanced", spring_setting |-> "1R", duration_seconds |-> 45],
    [id |-> "fb_snake_twist", section |-> "full_body", equipment |-> <<"reformer">>, level |-> "advanced", spring_setting |-> "1R+1B", duration_seconds |-> 60],
    [id |-> "fb_balance_control", section |-> "full_body", equipment |-> <<"reformer", "chair">>, level |-> "advanced", spring_setting |-> "1R", duration_seconds |-> 60],
    [id |-> "fb_burpees", section |-> "full_body", equipment |-> <<"mat">>, level |-> "intermediate", spring_setting |-> "", duration_seconds |-> 60],
    [id |-> "st_hip_flexor", section |-> "stretch", equipment |-> <<"mat", "reformer">>, level |-> "beginner", spring_setting |-> "1B or none", duration_seconds |-> 60],
    [id |-> "st_hamstring", section |-> "stretch", equipment |-> <<"mat", "reformer", "springboard">>, level |-> "beginner", spring_setting |-> "1B or none", duration_seconds |-> 60],
    [id |-> "st_mermaid_stretch", section |-> "stretch", equipment |-> <<"mat", "reformer">>, level |-> "beginner", spring_setting |-> "1R", duration_seconds |-> 45],
    [id |-> "st_spine_stretch", section |-> "stretch", equipment |-> <<"mat">>, level |-> "beginner", spring_setting |-> "", duration_seconds |-> 45],
    [id |-> "st_cat_cow", section |-> "stretch", equipment |-> <<"mat">>, level |-> "beginner", spring_setting |-> "", duration_seconds |-> 45],
    [id |-> "st_childs_pose", section |-> "stretch", equipment |-> <<"mat">>, level |-> "beginner", spring_setting |-> "", duration_seconds |-> 30]
  >>

(***************************************************************************)
(* Levels (lines 295-305)                                                  *)
(***************************************************************************)
\* a ranking that puts an unknown level above every configured one
level_order_unknown_top(l) ==
  CASE l = "beginner" -> 10
    [] l = "intermediate" -> 15
    [] l = "advanced" -> 20
    [] l = "advanced_plus" -> 25
    [] OTHER -> 30

\* line 297, with the default of line 298
level_order(l) ==
  CASE l = "beginner" -> 10
    [] l = "intermediate" -> 15
    [] l = "advanced" -> 20
    [] l = "advanced_plus" -> 25
    [] OTHER -> 15

_level_matches(exercise_level, target_level) ==
  level_order(exercise_level) <= level_order(target_level)

\* a lookup that answers the middle level whatever the id
middle_level_config(lvl) == EXPERIENCE_LEVELS[2]

_get_level_config(lvl) ==
  IF \E i \in DOMAIN EXPERIENCE_LEVELS : EXPERIENCE_LEVELS[i].id = lvl
  THEN EXPERIENCE_LEVELS[CHOOSE i \in DOMAIN EXPERIENCE_LEVELS : EXPERIENCE_LEVELS[i].id = lvl]
  ELSE EXPERIENCE_LEVELS[2]

(***************************************************************************)
(* Equipment allocation (lines 307-460)                                    *)
(***************************************************************************)
\* a primary equipment that falls back on reformer
primary_or_reformer(allowed) == IF Len(allowed) > 0 THEN allowed[1] ELSE "reformer"

\* line 326
primary_of(allowed) == IF Len(allowed) > 0 THEN allowed[1] ELSE "mat"

secondary_of(allowed) == IF Len(allowed) > 1 THEN allowed[2] ELSE None

\* a count that takes every equipment of an exercise, allowed or not
every_equipment_of(equipment, allowed) ==
  equipment

\* eq_counts of one section, kept as the sequence of its increments: the
\* count of eq is the number of its occurrences, the dict's key order is the
\* order of first occurrence.
\* line 341: the equipment of an exercise that is in the allowed list, in the
\* exercise's order
allowed_of(equipment, allowed) ==
  LET keep == {k \in DOMAIN equipment : InSeq(allowed, equipment[k])}
  IN  [j \in 1..Cardinality(keep) |->
         equipment[CHOOSE k \in keep : Cardinality({m \in keep : m <= k}) = j]]

\* lines 335-342 for the exercises lo..hi of the catalog, by halves
RECURSIVE eq_increments_between(_, _, _, _, _)
eq_increments_between(lo, hi, section_id, lvl, allowed) ==
  IF lo > hi THEN <<>>
  ELSE IF lo = hi
  THEN IF EXERCISES[lo].section = section_id /\ _level_matches(EXERCISES[lo].level, lvl)
       THEN allowed_of(EXERCISES[lo].equipment, allowed)
       ELSE <<>>
  ELSE eq_increments_between(lo, (lo + hi) \div 2, section_id, lvl, allowed)
         \o eq_increments_between((lo + hi) \div 2 + 1, hi, section_id, lvl, allowed)

eq_increments(i, section_id, lvl, allowed) ==
  eq_increments_between(i, Len(EXERCISES), section_id, lvl, allowed)

section_exercise_counts(ordered_sections, lvl, allowed) ==
  [sid \in {ordered_sections[i].id : i \in DOMAIN ordered_sections} |->
     eq_increments(1, sid, lvl, allowed)]

\* eq_counts.get(eq, 0)
count_get(eq_counts, eq) == Cardinality({k \in DOMAIN eq_counts : eq_counts[k] = eq})

\* max(eq_counts, key=eq_counts.get): the first key, in insertion order, of
\* maximal count
max_key(eq_counts) ==
  eq_counts[CHOOSE k \in DOMAIN eq_counts :
     /\ \A j \in DOMAIN eq_counts :
          count_get(eq_counts, eq_counts[j]) <= count_get(eq_counts, eq_counts[k])
     /\ \A j \in 1..(k - 1) :
          count_get(eq_counts, eq_counts[j]) < count_get(eq_counts, eq_counts[k])]

\* an allocation that gives every block the primary equipment
initial_allocation_primary_only(section_id, eq_counts, allowed) ==
  primary_of(allowed)

\* an allocation without the closing block's preference for mat
initial_allocation_primary_first(section_id, eq_counts, allowed) ==
  LET primary_equipment == primary_of(allowed)
      secondary_equipment == secondary_of(allowed)
  IN  IF count_get(eq_counts, primary_equipment) > 0 THEN primary_equipment
      ELSE IF secondary_equipment # None /\ count_get(eq_counts, secondary_equipment) > 0
           THEN secondary_equipment
      ELSE IF count_get(eq_counts, "mat") > 0 THEN "mat"
      ELSE IF eq_counts # <<>> THEN max_key(eq_counts)
      ELSE primary_equipment

\* one step of the initial allocation loop (lines 347-364)
initial_allocation(section_id, eq_counts, allowed) ==
  LET primary_equipment == primary_of(allowed)
      secondary_equipment == secondary_of(allowed)
  IN  IF section_id = "stretch" /\ count_get(eq_counts, "mat") > 0 THEN "mat"
      ELSE IF count_get(eq_counts, primary_equipment) > 0 THEN primary_equipment
      ELSE IF secondary_equipment # None /\ count_get(eq_counts, secondary_equipment) > 0
           THEN secondary_equipment
      ELSE IF count_get(eq_counts, "mat") > 0 THEN "mat"
      ELSE IF eq_counts # <<>> THEN max_key(eq_counts)
      ELSE primary_equipment

initial_allocations(ordered_sections, counts, allowed) ==
  [i \in DOMAIN ordered_sections |->
     initial_allocation(ordered_sections[i].id, counts[ordered_sections[i].id], allowed)]

\* lines 382-393: the 0-based indices of the sections that can take the
\* secondary equipment, ascending
secondary_eligible_of(ordered_sections, counts, allowed) ==
  LET indices == [k \in DOMAIN ordered_sections |-> k - 1]
      eligible(i) == /\ i # 0
                     /\ At(ordered_sections, i).id # "stretch"
                     /\ count_get(counts[At(ordered_sections, i).id], secondary_of(allowed)) >= 1
  IN  SelectSeq(indices, eligible)

\* lines 397-400: the bounds handed to random.randint
num_secondary_low(pattern_roll) == IF pattern_roll > 55 THEN 4 ELSE 3

num_secondary_high(pattern_roll, secondary_eligible) ==
  IF pattern_roll > 55 THEN Min2(6, Len(secondary_eligible))
  ELSE Min2(5, Len(secondary_eligible))

\* lines 404-405; int(n_sections * 0.3) is (3 * n_sections) \div 10
eligible_starts_of(secondary_eligible, n_sections) ==
  LET min_start == Max2(1, (3 * n_sections) \div 10)
      late(i) == i >= min_start
  IN  SelectSeq(secondary_eligible, late)

\* lines 410-417: the start indices the draws can give
start_choices(eligible_starts, position_roll) ==
  IF Len(eligible_starts) > 2
  THEN IF position_roll < 70
       THEN Range(SubSeq(eligible_starts, 1, Len(eligible_starts) \div 2 + 1))
       ELSE Range(eligible_starts)
  ELSE {eligible_starts[1]}

\* lines 420-425
RECURSIVE consecutive_scan(_, _, _, _)
consecutive_scan(secondary_eligible, k, start_idx, consecutive) ==
  IF k > Len(secondary_eligible) THEN consecutive
  ELSE LET next_idx == secondary_eligible[k]
           last == consecutive[Len(consecutive)]
       IN  IF next_idx > start_idx /\ next_idx = last + 1
           THEN consecutive_scan(secondary_eligible, k + 1, start_idx, Append(consecutive, next_idx))
           ELSE IF next_idx > last + 1 THEN consecutive
           ELSE consecutive_scan(secondary_eligible, k + 1, start_idx, consecutive)

\* a choice after the secondary block that goes back to primary equipment first
post_secondary_primary_first(current, eq_counts, allowed) ==
  IF count_get(eq_counts, primary_of(allowed)) > 0 THEN primary_of(allowed)
  ELSE IF InSeq(allowed, "mat") /\ count_get(eq_counts, "mat") > 0 THEN "mat"
  ELSE IF count_get(eq_counts, secondary_of(allowed)) > 0 THEN secondary_of(allowed)
  ELSE IF eq_counts # <<>> THEN max_key(eq_counts)
  ELSE current

\* lines 443-454: the equipment of a section after the secondary block
post_secondary(current, eq_counts, allowed) ==
  IF InSeq(allowed, "mat") /\ count_get(eq_counts, "mat") > 0 THEN "mat"
  ELSE IF count_get(eq_counts, secondary_of(allowed)) > 0 THEN secondary_of(allowed)
  ELSE IF count_get(eq_counts, primary_of(allowed)) > 0 THEN primary_of(allowed)
  ELSE IF eq_counts # <<>> THEN max_key(eq_counts)
  ELSE current

\* a block that takes every consecutive eligible index, whatever number was drawn
secondary_block_unbounded(secondary_eligible, start_idx, num_secondary) ==
  consecutive_scan(secondary_eligible, 1, start_idx, <<start_idx>>)

\* lines 419-428: the indices the secondary block takes, from start_idx on
secondary_block(secondary_eligible, start_idx, num_secondary) ==
  LET consecutive == consecutive_scan(secondary_eligible, 1, start_idx, <<start_idx>>)
  IN  SubSeq(consecutive, 1, Min2(num_secondary, Len(consecutive)))

\* lines 419-454: the secondary block from start_idx and what follows it
apply_secondary_block(allocations, ordered_sections, counts, allowed, secondary_eligible, start_idx, num_secondary) ==
  LET block == secondary_block(secondary_eligible, start_idx, num_secondary)
      last_secondary == block[Len(block)]
      in_block(i) == InSeq(block, i) /\ i < Len(allocations)
  IN  [k \in DOMAIN allocations |->
         IF k - 1 > last_secondary
         THEN post_secondary(allocations[k], counts[ordered_sections[k].id], allowed)
         ELSE IF in_block(k - 1) THEN secondary_of(allowed)
         ELSE allocations[k]]

\* a list assignment result[i] = eq (lines 493, 497): the caller's list
\* changes with it when result is the caller's list itself
assign(st, i, eq) ==
  [st EXCEPT !.result[i + 1] = eq,
             !.caller = IF st.shared THEN [st.caller EXCEPT ![i + 1] = eq] ELSE st.caller]

\* a repair that hands a returning block to the active equipment unseen
enforce_step_always_reassign(i, st, counts, ordered_sections, allowed) ==
  LET eq == At(st.result, i)
      abandoned == IF st.current_eq # None /\ eq # st.current_eq
                   THEN st.abandoned \cup {st.current_eq}
                   ELSE st.abandoned
      seen == [st EXCEPT !.abandoned = abandoned]
  IN  IF eq \in abandoned /\ st.current_eq # None
      THEN assign(seen, i, st.current_eq)
      ELSE [seen EXCEPT !.current_eq = eq]

\* a repair that prefers mat to the active equipment
enforce_step_mat_first(i, st, counts, ordered_sections, allowed) ==
  LET eq == At(st.result, i)
      abandoned == IF st.current_eq # None /\ eq # st.current_eq
                   THEN st.abandoned \cup {st.current_eq}
                   ELSE st.abandoned
      eq_counts == counts[At(ordered_sections, i).id]
      seen == [st EXCEPT !.abandoned = abandoned]
  IN  IF eq \in abandoned
      THEN IF InSeq(allowed, "mat") /\ count_get(eq_counts, "mat") > 0
           THEN [assign(seen, i, "mat") EXCEPT !.current_eq = "mat"]
           ELSE IF st.current_eq # None /\ count_get(eq_counts, st.current_eq) > 0
           THEN assign(seen, i, st.current_eq)
           ELSE [seen EXCEPT !.abandoned = abandoned \ {eq}, !.current_eq = eq,
                             !.bounced = st.bounced \cup {i}]
      ELSE [seen EXCEPT !.current_eq = eq]

\* lines 485-506: the body of the flow scan at index i (0-based); bounced
\* collects the indices where the return was accepted (lines 500-504)
enforce_step(i, st, counts, ordered_sections, allowed) ==
  LET eq == At(st.result, i)
      abandoned == IF st.current_eq # None /\ eq # st.current_eq
                   THEN st.abandoned \cup {st.current_eq}
                   ELSE st.abandoned
      eq_counts == counts[At(ordered_sections, i).id]
      seen == [st EXCEPT !.abandoned = abandoned]
  IN  IF eq \in abandoned
      THEN IF st.current_eq # None /\ count_get(eq_counts, st.current_eq) > 0
           THEN assign(seen, i, st.current_eq)
           ELSE IF InSeq(allowed, "mat") /\ count_get(eq_counts, "mat") > 0
           THEN [assign(seen, i, "mat") EXCEPT !.current_eq = "mat"]
           ELSE [seen EXCEPT !.abandoned = abandoned \ {eq}, !.current_eq = eq,
                             !.bounced = st.bounced \cup {i}]
      ELSE [seen EXCEPT !.current_eq = eq]

\* lines 484-506: the flow scan from index i on
RECURSIVE enforce_scan(_, _, _, _, _)
enforce_scan(i, st, counts, ordered_sections, allowed) ==
  IF i >= Len(st.result) THEN st
  ELSE CHOOSE final \in {enforce_scan(i + 1, next, counts, ordered_sections, allowed) :
                           next \in {enforce_step(i, st, counts, ordered_sections, allowed)}} :
         TRUE

\* a result that is the caller's list itself, not a copy of it
allocations_alias(allocations) ==
  [result |-> allocations, caller |-> allocations, shared |-> TRUE]

\* line 480: result is a new list with the caller's elements
allocations_copy(allocations) ==
  [result |-> allocations, caller |-> allocations, shared |-> FALSE]

\* lines 477-508: result is the list returned, caller the list passed in as
\* the call leaves it; a list of at most one block is returned as it is
enforce_state(allocations, counts, ordered_sections, allowed) ==
  LET scan(lists) == [result |-> lists.result, caller |-> lists.caller, shared |-> lists.shared,
                      abandoned |-> {}, current_eq |-> None, bounced |-> {}]
  IN  IF Len(allocations) <= 1
      THEN scan([result |-> allocations, caller |-> allocations, shared |-> TRUE])
      ELSE enforce_scan(0, scan(allocations_copy(allocations)), counts, ordered_sections, allowed)

_enforce_linear_flow(allocations, counts, ordered_sections, allowed) ==
  enforce_state(allocations, counts, ordered_sections, allowed).result

\* random.random() scaled by 100: one value for each range the code tells apart
PatternRolls == {5, 30, 80}

PositionRolls == {50, 90}

\* lines 366-458 for given counts, initial allocation and eligible indices
allocation_runs(ordered_sections, allowed, counts, initial, secondary_eligible, eligible_starts) ==
  LET done(allocations) ==
        CHOOSE outcome \in {[raised |-> FALSE, allocations |-> st.result, bounced |-> st.bounced] :
                              st \in {enforce_state(allocations, counts, ordered_sections, allowed)}} :
          TRUE
      drawn(pattern_roll, num_secondary, position_roll, start_idx, block, planned) ==
        [pattern_roll |-> pattern_roll, num_secondary |-> num_secondary,
         position_roll |-> position_roll, start_idx |-> start_idx,
         block |-> block, planned |-> planned, outcome |-> done(planned)]
      for_roll(pattern_roll) ==
        IF secondary_of(allowed) # None /\ pattern_roll > 10 /\ secondary_eligible # <<>>
        THEN LET low == num_secondary_low(pattern_roll)
                 high == num_secondary_high(pattern_roll, secondary_eligible)
             IN  IF low > high
                 THEN {[pattern_roll |-> pattern_roll, num_secondary |-> -1,
                        position_roll |-> -1, start_idx |-> -1,
                        block |-> <<>>, planned |-> <<>>,
                        outcome |-> [raised |-> TRUE, allocations |-> <<>>, bounced |-> {}]]}
                 ELSE IF eligible_starts = <<>>
                 THEN {drawn(pattern_roll, num_secondary, -1, -1, <<>>, initial) :
                         num_secondary \in low..high}
                 ELSE UNION {
                        UNION {
                          {drawn(pattern_roll, num_secondary,
                                 IF Len(eligible_starts) > 2 THEN r ELSE -1, start_idx,
                                 block, planned) :
                             planned \in {apply_secondary_block(initial, ordered_sections, counts,
                                                                allowed, secondary_eligible,
                                                                start_idx, num_secondary)},
                             block \in {secondary_block(secondary_eligible, start_idx,
                                                        num_secondary)}} :
                           num_secondary \in low..high,
                           start_idx \in start_choices(eligible_starts, r)} :
                        r \in PositionRolls}
        ELSE {drawn(pattern_roll, -1, -1, -1, <<>>, initial)}
  IN  UNION {for_roll(pattern_roll) : pattern_roll \in PatternRolls}

\* _allocate_equipment_blocks (lines 307-460) over the values its random draws
\* can take, as a function of the draws.  Each record holds the values drawn
\* (pattern_roll line 377, num_secondary lines 397-400, position_roll line 412,
\* start_idx lines 413-417; -1 stands for a draw the code did not make), the
\* indices of the secondary block (lines 427-431), the allocations handed to
\* _enforce_linear_flow (line 458) and the outcome; raised is random.randint's
\* ValueError on an empty range.  The counts, the initial allocation and the
\* eligible indices are computed once and handed on as values.
_allocate_equipment_blocks(ordered_sections, allowed, lvl) ==
  UNION {
    UNION {
      UNION {allocation_runs(ordered_sections, allowed, counts, initial, secondary_eligible,
                             eligible_starts_of(secondary_eligible, Len(ordered_sections))) :
               secondary_eligible \in {secondary_eligible_of(ordered_sections, counts, allowed)}} :
        initial \in {initial_allocations(ordered_sections, counts, allowed)}} :
      counts \in {section_exercise_counts(ordered_sections, lvl, allowed)}}

(***************************************************************************)
(* Section order (lines 520-577)                                           *)
(***************************************************************************)
\* an order that leaves the sections as declared
declaration_order(allowed, lvl) == FLEXIBLE_SECTIONS

_optimize_section_order(allowed, lvl) ==
  LET secondary_equipment == secondary_of(allowed)
      in_catalog(section) == \E i \in DOMAIN EXERCISES : EXERCISES[i].section = section.id
      capable(section) ==
        /\ in_catalog(section)
        /\ secondary_equipment # None
        /\ count_get(eq_increments(1, section.id, lvl, allowed), secondary_equipment) > 0
      not_capable(section) == ~capable(section)
      primary_only == SelectSeq(FLEXIBLE_SECTIONS, not_capable)
      secondary_capable == SelectSeq(FLEXIBLE_SECTIONS, capable)
      ordered == primary_only \o secondary_capable
      missing(section) == ~InSeq(ordered, section)
  IN  ordered \o SelectSeq(FLEXIBLE_SECTIONS, missing)

(***************************************************************************)
(* Validation (lines 598-625)                                              *)
(***************************************************************************)
RECURSIVE empty_section_violations(_)
empty_section_violations(sections) ==
  IF sections = <<>> THEN <<>>
  ELSE (IF Head(sections).exercises = <<>>
        THEN <<[kind |-> "empty_section", subject |-> Head(sections).name, count |-> 0, limit |-> 0]>>
        ELSE <<>>) \o empty_section_violations(Tail(sections))

\* a transition check that already reports the limit itself
transition_violations_at_limit(class_plan) ==
  IF class_plan.transitions >= class_plan.max_transitions
  THEN <<[kind |-> "transitions", subject |-> "", count |-> class_plan.transitions,
          limit |-> class_plan.max_transitions]>>
  ELSE <<>>

transition_violations(class_plan) ==
  IF class_plan.transitions > class_plan.max_transitions
  THEN <<[kind |-> "transitions", subject |-> "", count |-> class_plan.transitions,
          limit |-> class_plan.max_transitions]>>
  ELSE <<>>

used_equipment_of(sections) ==
  UNION {{sections[s].exercises[e].equipment : e \in DOMAIN sections[s].exercises} \ {""} :
           s \in DOMAIN sections}

\* a validator without the equipment check
no_equipment_violations(class_plan, max_equipment) ==
  <<>>

equipment_violations(class_plan, max_equipment) ==
  IF Cardinality(used_equipment_of(class_plan.sections)) > max_equipment
  THEN <<[kind |-> "equipment", subject |-> "",
          count |-> Cardinality(used_equipment_of(class_plan.sections)), limit |-> max_equipment]>>
  ELSE <<>>

\* the violation list; is_valid is that the list is empty (line 625)
_validate_class(class_plan, max_equipment) ==
  empty_section_violations(class_plan.sections)
    \o transition_violations(class_plan)
    \o equipment_violations(class_plan, max_equipment)

(***************************************************************************)
(* Content selection (lines 740-834)                                       *)
(***************************************************************************)
total_typical(ordered_sections) ==
  LET RECURSIVE sum(_)
      sum(k) == IF k = 0 THEN 0 ELSE ordered_sections[k].typical_minutes + sum(k - 1)
  IN  sum(Len(ordered_sections))

\* Seconds are kept as integers scaled by total_typical * 100: section_seconds
\* (lines 741-745) is typical_minutes * duration_minutes / total_typical * 60
\* * exercise_count_multiplier
TimeScale(ordered_sections) == total_typical(ordered_sections) * 100

section_seconds_of(section, duration, level_config) ==
  section.typical_minutes * duration * 60 * level_config.exercise_count_multiplier

\* a candidate list that takes exercises of every level
available_any_level(section_id, allocated_equipment, lvl) ==
  {i \in DOMAIN EXERCISES :
     /\ EXERCISES[i].section = section_id
     /\ InSeq(EXERCISES[i].equipment, allocated_equipment)}

\* lines 751-756, as catalog indices
available_of(section_id, allocated_equipment, lvl) ==
  {i \in DOMAIN EXERCISES :
     /\ EXERCISES[i].section = section_id
     /\ InSeq(EXERCISES[i].equipment, allocated_equipment)
     /\ _level_matches(EXERCISES[i].level, lvl)}

\* a sub-configuration taken from the catalog whatever the equipment
catalog_spring_of(ex, allocated_equipment) ==
  ex.spring_setting

\* lines 763, 780, 804
effective_spring_of(ex, allocated_equipment) ==
  IF allocated_equipment # "mat" THEN ex.spring_setting ELSE ""

\* spring_priority (lines 762-765): the first component of the sort key, with
\* last_spring as it is when the list is sorted
same_spring(ex, allocated_equipment, spring_at_sort) ==
  IF effective_spring_of(ex, allocated_equipment) = spring_at_sort \/ spring_at_sort = None
  THEN 0 ELSE 1

\* The exercises the loop of line 773 can take next: random.shuffle and the
\* random second component of the key put the unvisited exercises of least
\* same_spring in any order.
next_exercises(unvisited, allocated_equipment, spring_at_sort) ==
  {i \in unvisited : \A j \in unvisited :
     same_spring(EXERCISES[i], allocated_equipment, spring_at_sort)
       <= same_spring(EXERCISES[j], allocated_equipment, spring_at_sort)}

\* The head of the sorted list (line 773) under the order the random source
\* gave the section: any candidate, the first of the catalog, or the last.
ordered_next(candidates, order) ==
  IF order = "any" THEN candidates
  ELSE IF order = "catalog"
  THEN {i \in candidates : \A j \in candidates : i <= j}
  ELSE {i \in candidates : \A j \in candidates : i >= j}

\* line 774: the loop stops
budget_exhausted(remaining, has_exercise) ==
  remaining <= 0 /\ has_exercise

\* an acceptance test on the exercise's duration alone
fits_duration_only(cost, remaining, has_exercise) ==
  cost <= remaining

\* an acceptance test on the budget that is left, whatever the exercise takes
fits_while_budget(cost, remaining, has_exercise) ==
  remaining > 0 \/ ~has_exercise

\* line 777: the exercise fits, or the section has none yet
fits(cost, remaining, has_exercise) ==
  cost <= remaining \/ ~has_exercise

\* a budget that an accepted exercise leaves as it was
remaining_kept(remaining, cost) ==
  remaining

\* line 822: remaining_time -= ex.duration_seconds
remaining_after(remaining, cost) ==
  remaining - cost

\* a limit that never rejects an exercise
never_skipped(counted, transitions, limit, has_exercise) ==
  FALSE

\* line 788: a counted spring change at the limit is passed over, unless the
\* section has no exercise yet
skips_transition(counted, transitions, limit, has_exercise) ==
  counted /\ transitions >= limit /\ has_exercise

\* line 781
has_spring_transition_of(effective_spring, last) ==
  effective_spring # "" /\ effective_spring # last

\* a count of every spring change after the first exercise, also when the
\* equipment changes with it
counts_every_spring_change(first_exercise, has_spring_transition, has_equipment_transition) ==
  ~first_exercise /\ has_spring_transition

\* line 786: the exercise is a spring change that counts against the limit
counts_as_transition(first_exercise, has_spring_transition, has_equipment_transition) ==
  ~first_exercise /\ has_spring_transition /\ ~has_equipment_transition

\* a counter that ignores the limit
count_transition_unchecked(transitions, limit) ==
  transitions + 1

\* lines 791-792
count_transition(transitions, limit) ==
  IF transitions < limit THEN transitions + 1 ELSE transitions

\* a spring tracking that an equipment change does not reset
last_spring_kept(effective_spring, has_equipment_transition, last) ==
  IF effective_spring # "" THEN effective_spring ELSE last

\* lines 795-806: last_spring after the exercise is taken
next_last_spring(effective_spring, has_equipment_transition, last) ==
  IF effective_spring # "" THEN effective_spring
  ELSE IF has_equipment_transition THEN None
  ELSE last

\* an item that reports the first equipment the catalog lists for it
plan_exercise_first_listed(ex, allocated_equipment) ==
  [id |-> ex.id, equipment |-> ex.equipment[1],
   spring_setting |-> effective_spring_of(ex, allocated_equipment),
   duration_seconds |-> ex.duration_seconds]

\* exercise_data, lines 811-821
plan_exercise(ex, allocated_equipment) ==
  [id |-> ex.id, equipment |-> allocated_equipment,
   spring_setting |-> effective_spring_of(ex, allocated_equipment),
   duration_seconds |-> ex.duration_seconds]

(***************************************************************************)
(* The caller's best-effort result (lines 677-683)                         *)
(***************************************************************************)
\* a filter that removes only the first empty section
without_first_empty(sections) ==
  LET empty == {i \in DOMAIN sections : sections[i].exercises = <<>>}
  IN  IF empty = {} THEN sections
      ELSE LET k == CHOOSE i \in empty : \A j \in empty : i <= j
           IN  [i \in 1..(Len(sections) - 1) |->
                  IF i < k THEN sections[i] ELSE sections[i + 1]]

\* a filter that keeps every section
all_sections(sections) ==
  sections

\* line 680
non_empty_sections(sections) ==
  LET has_exercises(s) == s.exercises # <<>>
  IN  SelectSeq(sections, has_exercises)

\* a renumbering that leaves the order fields alone
keep_order(sections) ==
  sections

\* lines 681-682
renumber(sections) ==
  [i \in DOMAIN sections |-> [sections[i] EXCEPT !.order = i]]

prune(plan) ==
  [plan EXCEPT !.sections = renumber(non_empty_sections(plan.sections))]

(***************************************************************************)
(* Saved classes (database.py, and the handlers of app.py that write them) *)
(***************************************************************************)
\* A dict of a request is a record of all its possible keys with the set of
\* the keys it has; a key it has not holds a value that is never read.
has_key(dict, key) == key \in dict.keys

\* 'not class_data' (app.py lines 102, 146): the body has no class_data, or an
\* empty one
is_falsy(class_data) == class_data.keys = {}

\* json.dumps: the text of a value
json_dumps(value) == [json |-> value]

\* the keys save_class reads with class_data[...] (lines 73-77)
save_class_keys == {"duration_minutes", "level", "equipment", "sections", "total_exercises",
                    "transitions"}

\* the keys update_class reads with class_data[...] (lines 111-113)
update_class_keys == {"sections", "total_exercises", "transitions"}

\* the row of the INSERT (lines 64-79); created_at and updated_at take the
\* column default CURRENT_TIMESTAMP (lines 40-41)
inserted_row(timestamp, class_data, name, description) ==
  [name |-> name,
   description |-> description,
   duration_minutes |-> class_data.duration_minutes,
   level |-> class_data.level,
   equipment |-> json_dumps(class_data.equipment),
   sections |-> json_dumps(class_data.sections),
   total_exercises |-> class_data.total_exercises,
   transitions |-> class_data.transitions,
   max_transitions |-> IF has_key(class_data, "max_transitions")
                       THEN class_data.max_transitions ELSE 5,
   created_at |-> timestamp,
   updated_at |-> timestamp]

\* save_class (lines 49-84) on the table and its AUTOINCREMENT sequence:
\* the table after it, the id it returns, and raised for the KeyError of a
\* class_data without a key that is read
save_class(rows, sequence, timestamp, class_data, name, description) ==
  IF ~(save_class_keys \subseteq class_data.keys)
  THEN [saved |-> rows, sequence |-> sequence, class_id |-> 0, raised |-> "KeyError"]
  ELSE LET class_id == sequence + 1
       IN  [saved |-> [i \in DOMAIN rows \cup {class_id} |->
                         IF i = class_id
                         THEN inserted_row(timestamp, class_data, name, description)
                         ELSE rows[i]],
            sequence |-> class_id, class_id |-> class_id, raised |-> None]

\* a SET clause that also writes the columns save_class fills from class_data
updated_row_every_column(row, timestamp, class_data, name, description) ==
  [row EXCEPT
     !.duration_minutes = class_data.duration_minutes,
     !.level = class_data.level,
     !.equipment = json_dumps(class_data.equipment),
     !.max_transitions = class_data.max_transitions,
     !.sections = json_dumps(class_data.sections),
     !.total_exercises = class_data.total_exercises,
     !.transitions = class_data.transitions,
     !.updated_at = timestamp,
     !.name = IF name # None THEN name ELSE @,
     !.description = IF description # None THEN description ELSE @]

\* the SET clause of the UPDATE (lines 104-122) applied to a row
updated_row(row, timestamp, class_data, name, description) ==
  [row EXCEPT
     !.sections = json_dumps(class_data.sections),
     !.total_exercises = class_data.total_exercises,
     !.transitions = class_data.transitions,
     !.updated_at = timestamp,
     !.name = IF name # None THEN name ELSE @,
     !.description = IF description # None THEN description ELSE @]

\* WHERE id = ? (lines 129, 218): the rows the statement acts on
rows_with_id(rows, class_id) == {i \in DOMAIN rows : i = class_id}

\* update_class (lines 87-135): the table after it and what it returns
update_class(rows, timestamp, class_id, class_data, name, description) ==
  IF ~(update_class_keys \subseteq class_data.keys)
  THEN [saved |-> rows, success |-> FALSE, raised |-> "KeyError"]
  ELSE LET matched == rows_with_id(rows, class_id)
       IN  [saved |-> [i \in DOMAIN rows |->
                         IF i \in matched
                         THEN updated_row(rows[i], timestamp, class_data, name, description)
                         ELSE rows[i]],
            success |-> Cardinality(matched) > 0, raised |-> None]

\* delete_class (lines 208-223): the table after it and what it returns
delete_class(rows, class_id) ==
  LET matched == rows_with_id(rows, class_id)
  IN  [saved |-> [i \in DOMAIN rows \ matched |-> rows[i]],
       success |-> Cardinality(matched) > 0]

(***************************************************************************)
(* The inputs explored                                                     *)
(***************************************************************************)
MaxDuration == 1

\* a class of ordinary length, in minutes
LongDuration == 50

MaxRetries == 2

Durations == 1..MaxDuration

Retries == 0..MaxRetries

\* What random.shuffle and the random sort key (lines 759-766) may do to a
\* section's list under a random source: "two_orders" is the catalog order and
\* its reverse within each spring priority, "any" and "recorded" are every
\* order.
shuffle_orders(source) ==
  IF source = "two_orders" THEN {"catalog", "reversed"} ELSE {"any"}

\* The values a call has drawn so far; they are kept for a "recorded" source.
no_draws == [allocations |-> <<>>, picks |-> <<>>]

draw_allocation(source, drawn, d) ==
  IF source = "recorded"
  THEN [drawn EXCEPT !.allocations = Append(@, [pattern_roll |-> d.pattern_roll,
                                               num_secondary |-> d.num_secondary,
                                               position_roll |-> d.position_roll,
                                               start_idx |-> d.start_idx])]
  ELSE drawn

draw_pick(source, drawn, i) ==
  IF source = "recorded" THEN [drawn EXCEPT !.picks = Append(@, i)] ELSE drawn

\* The calls explored.  An argument that may be None is <<>> for None and
\* <<v>> for the value v.  Lists whose plans are few are explored through the
\* whole retry loop; lists with many candidate exercises for a single attempt.
AnyOrderCalls ==
  [duration : Durations, level : {"intermediate"},
   equipment : { << <<"trx">> >> },
   transitions : {<<>>, <<-1>>, <<0>>, <<1>>}, retries : Retries]
  \cup
  [duration : {1}, level : {"intermediate"},
   equipment : { << <<"trx", "barrel", "chair", "springboard">> >> },
   transitions : {<<-1>>}, retries : Retries]
  \cup
  [duration : Durations, level : {"beginner"},
   equipment : { << <<"reformer", "chair">> >> },
   transitions : {<<>>, <<0>>, <<1>>}, retries : Retries]
  \cup
  [duration : Durations, level : {"beginner"},
   equipment : { << <<"reformer", "mat">> >>, << <<"springboard", "chair", "mat">> >> },
   transitions : {<<>>, <<1>>}, retries : {1}]
  \cup
  [duration : Durations, level : {"intermediate"},
   equipment : { << <<"barrel", "trx", "springboard", "mat">> >> },
   transitions : {<<>>}, retries : {1}]
  \cup
  [duration : {LongDuration}, level : {"beginner"},
   equipment : { << <<"reformer">> >>, << <<"reformer", "chair">> >> },
   transitions : {<<>>, <<0>>, <<1>>}, retries : {1}]
  \cup
  [duration : {LongDuration}, level : {"intermediate"},
   equipment : { << <<"trx">> >> },
   transitions : {<<>>}, retries : {1}]
  \cup
  [duration : Durations, level : {"intermediate"},
   equipment : { << <<"trx", "chair">> >> },
   transitions : {<<>>}, retries : {1}]

\* Calls whose sections hold many candidates, under the two-order source
TwoOrderCalls ==
  [duration : {LongDuration}, level : {"intermediate"},
   equipment : { << <<"reformer">> >> },
   transitions : {<<>>}, retries : {1}]
  \cup
  [duration : Durations \cup {LongDuration},
   level : {"advanced", "advanced_plus", "expert"},
   equipment : { << <<"reformer">> >>, << <<"trx">> >> },
   transitions : {<<>>, <<0>>}, retries : {1}]
  \cup
  [duration : Durations \cup {LongDuration},
   level : {"beginner", "intermediate", "expert"},
   equipment : { <<>>, << <<>> >> },
   transitions : {<<>>}, retries : {1}]
  \cup
  [duration : Durations, level : {"beginner"},
   equipment : { << <<"mat", "reformer">> >> },
   transitions : {<<>>}, retries : {1}]
  \cup
  [duration : {LongDuration}, level : {"beginner"},
   equipment : { << <<"springboard", "mat">> >> },
   transitions : {<<>>}, retries : {1}]

Calls ==
  {[call |-> c, random_source |-> "any"] : c \in AnyOrderCalls}
    \cup {[call |-> c, random_source |-> "two_orders"] : c \in TwoOrderCalls}

\* float('inf') of line 659: above every violation count
Infinity == 1000

max_equipment == 3

VARIABLES
  pc,                    \* where the call stands
  duration_minutes, level, allowed_equipment, max_transitions, max_retries,
  random_source,         \* the behaviours of the random source explored in this call
  arguments,             \* history: the arguments as the caller gave them
  attempt,               \* iterations of the retry loop started so far
  best_plan,             \* <<>> (None) or <<plan>>
  best_violation_count,
  class_plan,            \* the plan of the attempt under way, <<>> when unbound
  violations, is_valid,  \* what _validate_class returned last (line 667)
  ordered_sections, equipment_allocations,
  idx,                   \* 0-based index of the section being filled
  available,             \* exercises of the section not yet visited by the loop
  shuffle_order,         \* what shuffle and sort made of the section's list
  spring_at_sort,        \* last_spring when the section's list was sorted
  selected, remaining_time, section_has_exercise,
  current_equipment, last_spring, is_first_exercise,
  result,                \* <<>> or <<the plan returned>>
  error,                 \* None or the exception that left generate_class
  attempt_log,           \* history: per attempt, its order, default and final allocation,
                         \* plan and violation count
  best_attempt,          \* history: the attempt that made best_plan, 0 if none
  returned_attempt,      \* history: the attempt whose plan was returned, 0 if none
  draws,                 \* history: what the call drew from the random source
  suspended,             \* the locals of the other call running on the builder
  saved_classes,         \* the table saved_classes: id -> row
  sqlite_sequence,       \* the last id AUTOINCREMENT gave out
  now,                   \* CURRENT_TIMESTAMP
  response               \* history: the handler that answered last, its id and status

saved_vars == << saved_classes, sqlite_sequence, now, response >>

builder_vars ==
  << pc, duration_minutes, level, allowed_equipment, max_transitions, max_retries,
     random_source, arguments, shuffle_order,
     attempt, best_plan, best_violation_count, class_plan, violations, is_valid,
     ordered_sections, equipment_allocations, idx, available, spring_at_sort,
     selected, remaining_time, section_has_exercise, current_equipment,
     last_spring, is_first_exercise, result, error, attempt_log, best_attempt,
     returned_attempt, draws, suspended >>

vars == << builder_vars, saved_vars >>

call_vars ==
  << duration_minutes, level, allowed_equipment, max_transitions, max_retries, random_source,
     arguments >>

validation_vars == << violations, is_valid >>

section_vars ==
  << available, shuffle_order, spring_at_sort, selected, remaining_time, section_has_exercise >>

\* The arguments and locals of the call that is running: everything
\* generate_class (lines 645-659) and _generate_class_attempt (lines 702-738)
\* bind is local to the call; ClassBuilder keeps only self.exercises (line 260).
call_frame ==
  [pc |-> pc,
   duration_minutes |-> duration_minutes,
   level |-> level,
   allowed_equipment |-> allowed_equipment,
   max_transitions |-> max_transitions,
   max_retries |-> max_retries,
   random_source |-> random_source,
   arguments |-> arguments,
   attempt |-> attempt,
   best_plan |-> best_plan,
   best_violation_count |-> best_violation_count,
   class_plan |-> class_plan,
   violations |-> violations,
   is_valid |-> is_valid,
   ordered_sections |-> ordered_sections,
   equipment_allocations |-> equipment_allocations,
   idx |-> idx,
   available |-> available,
   shuffle_order |-> shuffle_order,
   spring_at_sort |-> spring_at_sort,
   selected |-> selected,
   remaining_time |-> remaining_time,
   section_has_exercise |-> section_has_exercise,
   current_equipment |-> current_equipment,
   last_spring |-> last_spring,
   is_first_exercise |-> is_first_exercise,
   result |-> result,
   error |-> error,
   attempt_log |-> attempt_log,
   best_attempt |-> best_attempt,
   returned_attempt |-> returned_attempt,
   draws |-> draws]

\* a call that has not entered generate_class
InitCall ==
  /\ pc = "ready"
  /\ duration_minutes = 0
  /\ level = None
  /\ allowed_equipment = <<>>
  /\ max_transitions = 0
  /\ max_retries = 0
  /\ random_source = "any"
  /\ arguments = [duration |-> 0, level |-> None, equipment |-> <<>>, transitions |-> <<>>,
                  retries |-> 0]
  /\ attempt = 0
  /\ best_plan = <<>>
  /\ best_violation_count = Infinity
  /\ class_plan = <<>>
  /\ violations = <<>>
  /\ is_valid = FALSE
  /\ ordered_sections = <<>>
  /\ equipment_allocations = <<>>
  /\ idx = 0
  /\ available = {}
  /\ shuffle_order = "any"
  /\ spring_at_sort = None
  /\ selected = <<>>
  /\ remaining_time = 0
  /\ section_has_exercise = FALSE
  /\ current_equipment = None
  /\ last_spring = None
  /\ is_first_exercise = TRUE
  /\ result = <<>>
  /\ error = None
  /\ attempt_log = <<>>
  /\ best_attempt = 0
  /\ returned_attempt = 0
  /\ draws = no_draws

\* The builder after ClassBuilder() (lines 259-260): it holds the catalog and
\* nothing else; no call is under way.
\* init_db (database.py lines 22-46) on a new file: the table is empty
InitSaved ==
  /\ saved_classes = <<>>
  /\ sqlite_sequence = 0
  /\ now = 0
  /\ response = [handler |-> None, class_id |-> 0, status |-> 0]

Init ==
  /\ InitCall
  /\ suspended = call_frame
  /\ InitSaved

\* generate_class is entered: lines 645-659
generate_class(duration, lvl, equipment_arg, transitions_arg, retries, source) ==
  /\ pc = "ready"
  /\ random_source' = source
  /\ arguments' = [duration |-> duration, level |-> lvl, equipment |-> equipment_arg,
                   transitions |-> transitions_arg, retries |-> retries]
  /\ duration_minutes' = duration
  /\ level' = lvl
  /\ allowed_equipment' = IF equipment_arg = <<>> THEN <<"reformer">> ELSE equipment_arg[1]
  /\ max_transitions' = IF transitions_arg = <<>>
                        THEN _get_level_config(lvl).max_transitions
                        ELSE transitions_arg[1]
  /\ max_retries' = retries
  /\ best_plan' = <<>>
  /\ best_violation_count' = Infinity
  /\ pc' = "attempt"
  /\ UNCHANGED << saved_vars, draws, suspended, attempt, class_plan, validation_vars, ordered_sections, equipment_allocations,
                  idx, section_vars, current_equipment, last_spring, is_first_exercise,
                  result, error, attempt_log, best_attempt, returned_attempt >>

\* a retry loop that runs once more than asked
range_one_more(attempt_count, retries) == attempt_count <= retries

\* line 661: range(max_retries) has another value after attempt_count iterations
range_has_next(attempt_count, retries) == attempt_count < retries

\* One iteration of the retry loop begins (line 661) and _generate_class_attempt
\* runs up to its section loop: lines 702-738
_generate_class_attempt ==
  /\ pc = "attempt"
  /\ range_has_next(attempt, max_retries)
  /\ LET ordered == <<FIXED_FIRST>> \o _optimize_section_order(allowed_equipment, level)
                      \o <<FIXED_LAST>>
     IN  \E d \in _allocate_equipment_blocks(ordered, allowed_equipment, level) :
         LET outcome == d.outcome
         IN
           /\ attempt' = attempt + 1
           /\ draws' = draw_allocation(random_source, draws, d)
           /\ attempt_log' = Append(attempt_log,
                                    [bounced |-> outcome.bounced,
                                     order |-> [i \in DOMAIN ordered |-> ordered[i].id],
                                     initial |-> initial_allocations(ordered,
                                                   section_exercise_counts(ordered, level,
                                                                           allowed_equipment),
                                                   allowed_equipment),
                                     allocations |-> outcome.allocations,
                                     plan |-> <<>>,
                                     violation_count |-> -1])
           /\ IF outcome.raised
              THEN /\ pc' = "raised"
                   /\ error' = "ValueError"
                   /\ UNCHANGED << class_plan, ordered_sections, equipment_allocations >>
              ELSE /\ pc' = "section"
                   /\ error' = error
                   /\ ordered_sections' = ordered
                   /\ equipment_allocations' = outcome.allocations
                   /\ class_plan' =
                        << [duration_minutes |-> duration_minutes,
                            level |-> level,
                            level_name |-> _get_level_config(level).name,
                            equipment |-> allowed_equipment,
                            sections |-> <<>>,
                            total_exercises |-> 0,
                            equipment_flow |-> <<>>,
                            transitions |-> 0,
                            max_transitions |-> max_transitions] >>
  /\ idx' = 0
  /\ current_equipment' = None
  /\ last_spring' = None
  /\ is_first_exercise' = TRUE
  /\ UNCHANGED << saved_vars, suspended, call_vars, best_plan, best_violation_count, validation_vars, section_vars,
                  result, best_attempt, returned_attempt >>

\* The section loop takes its next section: lines 740-771
begin_section ==
  /\ pc = "section"
  /\ idx < Len(ordered_sections)
  /\ LET section == At(ordered_sections, idx)
         allocated_equipment == At(equipment_allocations, idx)
     IN  /\ available' = available_of(section.id, allocated_equipment, level)
         /\ remaining_time' = section_seconds_of(section, duration_minutes, _get_level_config(level))
  /\ shuffle_order' \in shuffle_orders(random_source)
  /\ spring_at_sort' = last_spring
  /\ selected' = <<>>
  /\ section_has_exercise' = FALSE
  /\ pc' = "exercise"
  /\ UNCHANGED << saved_vars, draws, suspended, call_vars, attempt, best_plan, best_violation_count,
                  class_plan, validation_vars,
                  ordered_sections, equipment_allocations, idx, current_equipment,
                  last_spring, is_first_exercise, result, error, attempt_log,
                  best_attempt, returned_attempt >>

\* One iteration of the exercise loop: lines 773-822
visit_exercise ==
  /\ pc = "exercise"
  /\ available # {}
  /\ LET allocated_equipment == At(equipment_allocations, idx)
         plan == class_plan[1]
     IN  \E i \in ordered_next(next_exercises(available, allocated_equipment, spring_at_sort),
                             shuffle_order) :
           LET ex == EXERCISES[i]
               cost == ex.duration_seconds * TimeScale(ordered_sections)
               has_equipment_transition == allocated_equipment # current_equipment
               effective_spring == effective_spring_of(ex, allocated_equipment)
               has_spring_transition == has_spring_transition_of(effective_spring, last_spring)
               counted == counts_as_transition(is_first_exercise, has_spring_transition,
                                               has_equipment_transition)
               drawn == draws' = draw_pick(random_source, draws, i)
               skip == /\ available' = available \ {i}
                       /\ UNCHANGED << class_plan, selected, remaining_time,
                                       section_has_exercise, current_equipment,
                                       last_spring, is_first_exercise >>
           IN  /\ drawn
               /\ IF budget_exhausted(remaining_time, section_has_exercise)
                  THEN /\ available' = {}
                       /\ UNCHANGED << class_plan, selected, remaining_time,
                                       section_has_exercise, current_equipment,
                                       last_spring, is_first_exercise >>
                  ELSE IF fits(cost, remaining_time, section_has_exercise)
                  THEN IF skips_transition(counted, plan.transitions, max_transitions,
                                           section_has_exercise)
                       THEN skip
                       ELSE /\ available' = available \ {i}
                            /\ class_plan' =
                                 << [plan EXCEPT
                                       !.transitions =
                                          IF counted THEN count_transition(@, max_transitions) ELSE @,
                                       !.equipment_flow =
                                          IF has_equipment_transition
                                          THEN Append(@, allocated_equipment) ELSE @] >>
                            /\ current_equipment' = allocated_equipment
                            /\ last_spring' = next_last_spring(effective_spring,
                                                               has_equipment_transition,
                                                               last_spring)
                            /\ is_first_exercise' = FALSE
                            /\ section_has_exercise' = TRUE
                            /\ selected' = Append(selected, plan_exercise(ex, allocated_equipment))
                            /\ remaining_time' = remaining_after(remaining_time, cost)
                  ELSE skip
  /\ UNCHANGED << saved_vars, suspended, call_vars, pc, attempt, best_plan, best_violation_count, validation_vars,
                  ordered_sections, equipment_allocations, idx, shuffle_order,
                  spring_at_sort, result, error, attempt_log, best_attempt,
                  returned_attempt >>

\* The exercise loop is over and the section joins the plan: lines 824-832
end_section ==
  /\ pc = "exercise"
  /\ available = {}
  /\ LET section == At(ordered_sections, idx)
         plan == class_plan[1]
     IN  class_plan' =
           << [plan EXCEPT
                 !.sections = Append(@, [id |-> section.id, name |-> section.name,
                                         order |-> idx + 1, exercises |-> selected]),
                 !.total_exercises = @ + Len(selected)] >>
  /\ idx' = idx + 1
  /\ pc' = "section"
  /\ available' = {}
  /\ shuffle_order' = "any"
  /\ spring_at_sort' = None
  /\ selected' = <<>>
  /\ remaining_time' = 0
  /\ section_has_exercise' = FALSE
  /\ UNCHANGED << saved_vars, draws, suspended, call_vars, attempt, best_plan, best_violation_count, validation_vars,
                  ordered_sections, equipment_allocations, current_equipment,
                  last_spring, is_first_exercise, result, error, attempt_log,
                  best_attempt, returned_attempt >>

\* a loop that accepts no attempt
never_valid(found) == FALSE

\* line 625: len(violations) == 0
no_violations(found) == Len(found) = 0

\* a comparison under which a later tie replaces the best plan
is_not_worse(violation_count, best_count) == violation_count <= best_count

\* line 673: the attempt replaces the best plan kept so far
is_better(violation_count, best_count) == violation_count < best_count

\* _generate_class_attempt returns (line 834) and the loop body goes on:
\* lines 666-675
validate_attempt ==
  /\ pc = "section"
  /\ idx = Len(ordered_sections)
  /\ LET plan == class_plan[1]
         found == _validate_class(plan, max_equipment)
     IN  /\ violations' = found
         /\ is_valid' = no_violations(found)
         /\ attempt_log' = [attempt_log EXCEPT ![attempt].violation_count = Len(found),
                                               ![attempt].plan = << plan >>]
         /\ IF no_violations(found)
            THEN /\ result' = << plan >>
                 /\ returned_attempt' = attempt
                 /\ pc' = "returned"
                 /\ UNCHANGED << best_plan, best_violation_count, best_attempt >>
            ELSE /\ pc' = "attempt"
                 /\ IF is_better(Len(found), best_violation_count)
                    THEN /\ best_violation_count' = Len(found)
                         /\ best_plan' = << plan >>
                         /\ best_attempt' = attempt
                    ELSE UNCHANGED << best_plan, best_violation_count, best_attempt >>
                 /\ UNCHANGED << result, returned_attempt >>
  /\ UNCHANGED << saved_vars, draws, suspended, call_vars, attempt, class_plan, ordered_sections, equipment_allocations,
                  idx, section_vars, current_equipment, last_spring, is_first_exercise,
                  error >>

\* The retry loop ran out: lines 677-683.  With no iteration at all class_plan
\* is unbound and line 678 raises UnboundLocalError.
return_best ==
  /\ pc = "attempt"
  /\ ~range_has_next(attempt, max_retries)
  /\ IF best_plan = <<>> /\ class_plan = <<>>
     THEN /\ pc' = "raised"
          /\ error' = "UnboundLocalError"
          /\ UNCHANGED << best_plan, result, returned_attempt >>
     ELSE LET chosen == IF best_plan # <<>> THEN best_plan[1] ELSE class_plan[1]
          IN  /\ result' = << prune(chosen) >>
              /\ best_plan' = IF best_plan # <<>> THEN << prune(chosen) >> ELSE best_plan
              /\ returned_attempt' = IF best_plan # <<>> THEN best_attempt ELSE attempt
              /\ pc' = "returned"
              /\ error' = error
  /\ UNCHANGED << saved_vars, draws, suspended, call_vars, attempt, best_violation_count, class_plan, validation_vars,
                  ordered_sections, equipment_allocations, idx, section_vars,
                  current_equipment, last_spring, is_first_exercise, attempt_log,
                  best_attempt >>

\* a builder that keeps the plan under construction on the instance, so that
\* both requests write one plan
switch_thread_shared_plan ==
  /\ suspended' = call_frame
  /\ pc' = suspended.pc
  /\ duration_minutes' = suspended.duration_minutes
  /\ level' = suspended.level
  /\ allowed_equipment' = suspended.allowed_equipment
  /\ max_transitions' = suspended.max_transitions
  /\ max_retries' = suspended.max_retries
  /\ random_source' = suspended.random_source
  /\ arguments' = suspended.arguments
  /\ attempt' = suspended.attempt
  /\ best_plan' = suspended.best_plan
  /\ best_violation_count' = suspended.best_violation_count
  /\ class_plan' = class_plan
  /\ violations' = suspended.violations
  /\ is_valid' = suspended.is_valid
  /\ ordered_sections' = suspended.ordered_sections
  /\ equipment_allocations' = suspended.equipment_allocations
  /\ idx' = suspended.idx
  /\ available' = suspended.available
  /\ shuffle_order' = suspended.shuffle_order
  /\ spring_at_sort' = suspended.spring_at_sort
  /\ selected' = suspended.selected
  /\ remaining_time' = suspended.remaining_time
  /\ section_has_exercise' = suspended.section_has_exercise
  /\ current_equipment' = suspended.current_equipment
  /\ last_spring' = suspended.last_spring
  /\ is_first_exercise' = suspended.is_first_exercise
  /\ result' = suspended.result
  /\ error' = suspended.error
  /\ attempt_log' = suspended.attempt_log
  /\ best_attempt' = suspended.best_attempt
  /\ returned_attempt' = suspended.returned_attempt
  /\ draws' = suspended.draws
  /\ UNCHANGED saved_vars

\* a builder that keeps the equipment of the last selected exercise on the
\* instance
switch_thread_shared_equipment ==
  /\ suspended' = call_frame
  /\ pc' = suspended.pc
  /\ duration_minutes' = suspended.duration_minutes
  /\ level' = suspended.level
  /\ allowed_equipment' = suspended.allowed_equipment
  /\ max_transitions' = suspended.max_transitions
  /\ max_retries' = suspended.max_retries
  /\ random_source' = suspended.random_source
  /\ arguments' = suspended.arguments
  /\ attempt' = suspended.attempt
  /\ best_plan' = suspended.best_plan
  /\ best_violation_count' = suspended.best_violation_count
  /\ class_plan' = suspended.class_plan
  /\ violations' = suspended.violations
  /\ is_valid' = suspended.is_valid
  /\ ordered_sections' = suspended.ordered_sections
  /\ equipment_allocations' = suspended.equipment_allocations
  /\ idx' = suspended.idx
  /\ available' = suspended.available
  /\ shuffle_order' = suspended.shuffle_order
  /\ spring_at_sort' = suspended.spring_at_sort
  /\ selected' = suspended.selected
  /\ remaining_time' = suspended.remaining_time
  /\ section_has_exercise' = suspended.section_has_exercise
  /\ current_equipment' = current_equipment
  /\ last_spring' = suspended.last_spring
  /\ is_first_exercise' = suspended.is_first_exercise
  /\ result' = suspended.result
  /\ error' = suspended.error
  /\ attempt_log' = suspended.attempt_log
  /\ best_attempt' = suspended.best_attempt
  /\ returned_attempt' = suspended.returned_attempt
  /\ draws' = suspended.draws
  /\ UNCHANGED saved_vars

\* The interpreter suspends the running request and resumes the other one on
\* the module-level builder (src/app.py lines 12, 28-47): each call goes on
\* with its own locals.
switch_thread ==
  /\ suspended' = call_frame
  /\ pc' = suspended.pc
  /\ duration_minutes' = suspended.duration_minutes
  /\ level' = suspended.level
  /\ allowed_equipment' = suspended.allowed_equipment
  /\ max_transitions' = suspended.max_transitions
  /\ max_retries' = suspended.max_retries
  /\ random_source' = suspended.random_source
  /\ arguments' = suspended.arguments
  /\ attempt' = suspended.attempt
  /\ best_plan' = suspended.best_plan
  /\ best_violation_count' = suspended.best_violation_count
  /\ class_plan' = suspended.class_plan
  /\ violations' = suspended.violations
  /\ is_valid' = suspended.is_valid
  /\ ordered_sections' = suspended.ordered_sections
  /\ equipment_allocations' = suspended.equipment_allocations
  /\ idx' = suspended.idx
  /\ available' = suspended.available
  /\ shuffle_order' = suspended.shuffle_order
  /\ spring_at_sort' = suspended.spring_at_sort
  /\ selected' = suspended.selected
  /\ remaining_time' = suspended.remaining_time
  /\ section_has_exercise' = suspended.section_has_exercise
  /\ current_equipment' = suspended.current_equipment
  /\ last_spring' = suspended.last_spring
  /\ is_first_exercise' = suspended.is_first_exercise
  /\ result' = suspended.result
  /\ error' = suspended.error
  /\ attempt_log' = suspended.attempt_log
  /\ best_attempt' = suspended.best_attempt
  /\ returned_attempt' = suspended.returned_attempt
  /\ draws' = suspended.draws
  /\ UNCHANGED saved_vars

Next ==
  \/ \E c \in Calls :
       generate_class(c.call.duration, c.call.level, c.call.equipment, c.call.transitions,
                      c.call.retries, c.random_source)
  \/ _generate_class_attempt
  \/ begin_section
  \/ visit_exercise
  \/ end_section
  \/ validate_attempt
  \/ return_best

Spec == Init /\ [][Next]_vars

\* Calls followed to their end: with no attempt at all, with attempts that are
\* all invalid, with a valid attempt, and with two equipment types
EndedCalls ==
  [duration : Durations, level : {"intermediate"},
   equipment : { << <<"trx">> >> },
   transitions : {<<>>, <<-1>>}, retries : Retries]
  \cup
  [duration : Durations, level : {"intermediate"},
   equipment : { << <<"trx", "chair">> >> },
   transitions : {<<>>}, retries : {1}]
  \cup
  [duration : Durations, level : {"intermediate"}, equipment : { << <<"springboard">> >> },
   transitions : {<<>>}, retries : {MaxRetries}]

NextEnded ==
  \/ \E c \in EndedCalls :
       generate_class(c.duration, c.level, c.equipment, c.transitions, c.retries, "any")
  \/ _generate_class_attempt
  \/ begin_section
  \/ visit_exercise
  \/ end_section
  \/ validate_attempt
  \/ return_best

\* generate_class is straight-line code on one thread: it waits for nothing,
\* so a step that can be taken is taken.
FairSpec == Init /\ [][NextEnded]_vars /\ WF_vars(NextEnded)

\* Two requests served by the one builder, each with a recorded random source
SharedBuilderCalls ==
  [duration : {1}, level : {"intermediate"},
   equipment : { << <<"springboard">> >> },
   transitions : {<<>>, <<0>>}, retries : {1}]
  \cup
  [duration : {1}, level : {"beginner"},
   equipment : { << <<"trx", "springboard">> >> },
   transitions : {<<>>}, retries : {1}]

NextShared ==
  \/ \E c \in SharedBuilderCalls :
       generate_class(c.duration, c.level, c.equipment, c.transitions, c.retries, "recorded")
  \/ _generate_class_attempt
  \/ begin_section
  \/ visit_exercise
  \/ end_section
  \/ validate_attempt
  \/ return_best
  \/ switch_thread

SpecShared == Init /\ [][NextShared]_vars

(***************************************************************************)
(* Requests that write saved classes                                       *)
(***************************************************************************)
\* ids AUTOINCREMENT gives out in a run
MaxSaved == 2

\* seconds CURRENT_TIMESTAMP advances in a run
MaxTime == 1

\* the ids of the requests: those that can be given out, and one that never is
ClassIds == 1..(MaxSaved + 1)

all_keys ==
  {"duration_minutes", "level", "equipment", "sections", "total_exercises", "transitions",
   "max_transitions"}

\* the class_data of a POST /classes: a generated plan
GeneratedClass ==
  [keys |-> all_keys,
   duration_minutes |-> 30, level |-> "beginner", equipment |-> <<"reformer">>,
   sections |-> <<"footwork">>, total_exercises |-> 1, transitions |-> 0,
   max_transitions |-> 3]

\* the class_data of a PUT /classes/<id>: an edited plan whose every value
\* differs from the generated one's
EditedClass ==
  [keys |-> all_keys,
   duration_minutes |-> 60, level |-> "advanced", equipment |-> <<"mat">>,
   sections |-> <<"footwork", "stretch">>, total_exercises |-> 2, transitions |-> 1,
   max_transitions |-> 6]

\* no class_data, or {}
NoClass == [EditedClass EXCEPT !.keys = {}]

\* a class_data without 'transitions'
PartialClass == [EditedClass EXCEPT !.keys = all_keys \ {"transitions", "max_transitions"}]

\* request.json of POST /classes; None is a key the body has not
SaveBodies ==
  {[name |-> "Morning", description |-> None, class_data |-> GeneratedClass],
   [name |-> None, description |-> "slow", class_data |-> NoClass]}

\* request.json of PUT /classes/<id>
UpdateBodies ==
  [name : {None, "Evening"}, description : {None}, class_data : {EditedClass}]
    \cup [name : {None}, description : {""}, class_data : {EditedClass, NoClass, PartialClass}]

\* save_new_class, app.py lines 93-106
save_new_class(data) ==
  /\ sqlite_sequence < MaxSaved
  /\ LET name == IF data.name # None THEN data.name ELSE "Untitled Class"
         description == IF data.description # None THEN data.description ELSE ""
         class_data == data.class_data
     IN  IF is_falsy(class_data)
         THEN /\ response' = [handler |-> "save_new_class", class_id |-> 0, status |-> 400]
              /\ UNCHANGED << saved_classes, sqlite_sequence >>
         ELSE LET done == save_class(saved_classes, sqlite_sequence, now, class_data, name,
                                     description)
              IN  /\ saved_classes' = done.saved
                  /\ sqlite_sequence' = done.sequence
                  /\ response' = [handler |-> "save_new_class", class_id |-> done.class_id,
                                  status |-> IF done.raised = None THEN 200 ELSE 500]
  /\ UNCHANGED << now, builder_vars >>

\* update_saved_class, app.py lines 137-154
update_saved_class(class_id, data) ==
  /\ LET class_data == data.class_data
     IN  IF is_falsy(class_data)
         THEN /\ response' = [handler |-> "update_saved_class", class_id |-> class_id,
                              status |-> 400]
              /\ UNCHANGED saved_classes
         ELSE LET done == update_class(saved_classes, now, class_id, class_data, data.name,
                                       data.description)
              IN  /\ saved_classes' = done.saved
                  /\ response' = [handler |-> "update_saved_class", class_id |-> class_id,
                                  status |-> IF done.raised # None THEN 500
                                             ELSE IF ~done.success THEN 404 ELSE 200]
  /\ UNCHANGED << sqlite_sequence, now, builder_vars >>

\* delete_saved_class, app.py lines 157-165
delete_saved_class(class_id) ==
  /\ LET done == delete_class(saved_classes, class_id)
     IN  /\ saved_classes' = done.saved
         /\ response' = [handler |-> "delete_saved_class", class_id |-> class_id,
                         status |-> IF ~done.success THEN 404 ELSE 200]
  /\ UNCHANGED << sqlite_sequence, now, builder_vars >>

\* a second passes between two requests
tick ==
  /\ now < MaxTime
  /\ now' = now + 1
  /\ UNCHANGED << saved_classes, sqlite_sequence, response, builder_vars >>

NextSaved ==
  \/ \E data \in SaveBodies : save_new_class(data)
  \/ \E class_id \in ClassIds, data \in UpdateBodies : update_saved_class(class_id, data)
  \/ \E class_id \in ClassIds : delete_saved_class(class_id)
  \/ tick

SpecSaved == Init /\ [][NextSaved]_vars
(***************************************************************************)
(* Properties of generate_class and _validate_class                        *)
(***************************************************************************)
Returned == pc = "returned"

\* the plan came from the loop's early return (line 670)
ReturnedValid == pc = "returned" /\ is_valid

\* the plan came from the best-effort path (lines 677-683)
ReturnedFallback == pc = "returned" /\ ~is_valid

\* the plan of the attempt that was returned, as _generate_class_attempt left it
AttemptPlan == attempt_log[returned_attempt].plan[1]

SectionEquipment(section) == section.exercises[1].equipment

\* 0-based position of a section among the ordered sections of an attempt
PositionOf(log, section_id) ==
  (CHOOSE k \in DOMAIN log.order : log.order[k] = section_id) - 1

\* C1: a plan returned by generate_class, first valid attempt or best-effort
\* fallback, has no section whose exercise list is empty.
C1_NoEmptySection ==
  Returned =>
    \A s \in DOMAIN result[1].sections : Len(result[1].sections[s].exercises) > 0

\* C1's case: a fallback whose attempt had an empty section, removed from the
\* returned plan.
C1_Witness ==
  /\ ReturnedFallback
  /\ \E v \in DOMAIN violations : violations[v].kind = "empty_section"
  /\ Len(result[1].sections) > 0
  /\ Len(result[1].sections) < Len(attempt_log[returned_attempt].order)

\* C2: in every returned plan the first section is footwork and the last is
\* stretch, for any level and allowed-equipment list.
C2_FixedEndpoints ==
  Returned =>
    /\ Len(result[1].sections) > 0
    /\ result[1].sections[1].id = FIXED_FIRST.id
    /\ result[1].sections[Len(result[1].sections)].id = FIXED_LAST.id

\* C3, as stated: every returned plan uses at most 3 distinct equipment values,
\* whatever the length of the allowed-equipment list.
C3_EquipmentCapAlways ==
  Returned => Cardinality(used_equipment_of(result[1].sections)) <= max_equipment

\* C3, amended: a returned plan uses at most 3 distinct equipment values when
\* it is a valid attempt or the allowed list has at most 3 entries; its values
\* are values of the allowed list, or mat alone when the list is empty.
C3_EquipmentCapWhenValid ==
  Returned =>
    /\ (is_valid \/ Len(allowed_equipment) <= max_equipment)
         => Cardinality(used_equipment_of(result[1].sections)) <= max_equipment
    /\ used_equipment_of(result[1].sections)
         \subseteq (IF allowed_equipment = <<>> THEN {"mat"} ELSE Range(allowed_equipment))

\* C3's case: a valid plan that uses exactly 3 equipment values.
C3_Witness ==
  /\ ReturnedValid
  /\ Cardinality(used_equipment_of(result[1].sections)) = max_equipment

\* C4: a returned plan whose effective transition cap T is >= 0 reports at
\* most T transitions; with the cap overridden to 1, at most 1.
C4_TransitionsWithinCap ==
  (Returned /\ max_transitions >= 0) =>
    /\ result[1].max_transitions = max_transitions
    /\ result[1].transitions <= max_transitions
    /\ result[1].transitions >= 0

\* C4's case: the cap is 1, the plan reports 1 transition and holds three
\* different spring settings, so later spring changes met the cap.
C4_Witness ==
  /\ Returned
  /\ max_transitions = 1
  /\ result[1].transitions = 1
  /\ Cardinality(UNION {{result[1].sections[s].exercises[e].spring_setting :
                           e \in DOMAIN result[1].sections[s].exercises} \ {""} :
                        s \in DOMAIN result[1].sections}) >= 3

\* C5: for a positive duration, any level and a non-empty allowed list,
\* generate_class raises no error and returns a plan.
C5_NeverRaises ==
  (duration_minutes > 0 /\ Len(allowed_equipment) > 0 /\ max_retries >= 1) =>
    (pc # "raised" /\ error = None)

\* C6: reading the equipment of the returned plan's sections in order, a type
\* reappears after a different type only where _enforce_linear_flow accepted
\* a bounce (lines 500-504) for that return.
C6_NoReturnWithoutBounce ==
  Returned =>
    LET secs == result[1].sections
        log == attempt_log[returned_attempt]
    IN  \A k \in DOMAIN secs :
          (/\ k > 2
           /\ SectionEquipment(secs[k]) # SectionEquipment(secs[k - 1])
           /\ \E i \in 1..(k - 2) : SectionEquipment(secs[i]) = SectionEquipment(secs[k]))
          => \E b \in log.bounced :
               /\ b > PositionOf(log, secs[k - 1].id)
               /\ b <= PositionOf(log, secs[k].id)
               /\ At(log.allocations, b) = SectionEquipment(secs[k])

\* C7: generate_class returns the plan of the first attempt with zero
\* violations, runs no attempt after it, and runs at most max_retries attempts.
C7_FirstValidReturned ==
  /\ attempt <= max_retries
  /\ Len(attempt_log) = attempt
  /\ \A a \in DOMAIN attempt_log :
       attempt_log[a].violation_count = 0 =>
         /\ a = attempt
         /\ pc = "returned"
         /\ returned_attempt = a
         /\ result = attempt_log[a].plan
  /\ ReturnedValid => attempt_log[returned_attempt].violation_count = 0

\* C7's case: the first attempt is valid and is returned although the call
\* allowed a second one.
C7_Witness ==
  /\ ReturnedValid
  /\ attempt = 1
  /\ max_retries = 2
  /\ attempt_log[1].violation_count = 0

\* C8: when no attempt is valid, the returned plan is the pruned plan of the
\* earliest attempt whose violation count is least over all attempts.
C8_BestEffortIsEarliestMinimum ==
  (Returned /\ \A a \in DOMAIN attempt_log : attempt_log[a].violation_count > 0) =>
    /\ Len(attempt_log) = max_retries
    /\ returned_attempt \in DOMAIN attempt_log
    /\ \A a \in DOMAIN attempt_log :
         /\ attempt_log[returned_attempt].violation_count <= attempt_log[a].violation_count
         /\ a < returned_attempt =>
              attempt_log[returned_attempt].violation_count < attempt_log[a].violation_count
    /\ LET kept == {s \in DOMAIN AttemptPlan.sections :
                      Len(AttemptPlan.sections[s].exercises) > 0}
           secs == result[1].sections
       IN  /\ Len(secs) = Cardinality(kept)
           /\ \A i \in DOMAIN secs :
                \E s \in kept :
                  /\ Cardinality({t \in kept : t <= s}) = i
                  /\ secs[i].id = AttemptPlan.sections[s].id
                  /\ secs[i].exercises = AttemptPlan.sections[s].exercises
           /\ result[1].transitions = AttemptPlan.transitions
           /\ result[1].equipment_flow = AttemptPlan.equipment_flow

\* C8's case: a fallback after two invalid attempts with different plans.
C8_Witness ==
  /\ ReturnedFallback
  /\ Len(attempt_log) = 2
  /\ attempt_log[1].violation_count > 0
  /\ attempt_log[2].violation_count > 0
  /\ attempt_log[1].plan # attempt_log[2].plan
  /\ returned_attempt = 1

\* the plan _validate_class was last given
Validated == attempt_log[attempt].plan[1]

EntriesOfKind(kind) == Cardinality({v \in DOMAIN violations : violations[v].kind = kind})

\* C9: the violation list of _validate_class has one entry per section with
\* zero exercises, one more iff transitions > max_transitions, one more iff
\* the distinct item equipment values exceed max_equipment (3), and nothing
\* else; the flag is true iff the list is empty; validation raises nothing.
C9_ViolationListExact ==
  (attempt >= 1 /\ attempt_log[attempt].violation_count >= 0) =>
    /\ EntriesOfKind("empty_section")
         = Cardinality({s \in DOMAIN Validated.sections :
                          Len(Validated.sections[s].exercises) = 0})
    /\ EntriesOfKind("transitions")
         = (IF Validated.transitions > Validated.max_transitions THEN 1 ELSE 0)
    /\ EntriesOfKind("equipment")
         = (IF Cardinality({eq \in Range(allowed_equipment) \cup {"mat"} :
                              \E s \in DOMAIN Validated.sections :
                                \E e \in DOMAIN Validated.sections[s].exercises :
                                  Validated.sections[s].exercises[e].equipment = eq})
                 > max_equipment
            THEN 1 ELSE 0)
    /\ Len(violations)
         = EntriesOfKind("empty_section") + EntriesOfKind("transitions")
             + EntriesOfKind("equipment")
    /\ is_valid <=> Len(violations) = 0
    /\ attempt_log[attempt].violation_count = Len(violations)
    /\ error = None

\* C9's case: a validated plan that draws an entry of each of the three kinds.
C9_Witness ==
  /\ attempt >= 1
  /\ attempt_log[attempt].violation_count >= 0
  /\ EntriesOfKind("empty_section") >= 2
  /\ EntriesOfKind("transitions") = 1
  /\ EntriesOfKind("equipment") = 1

\* C10: in every returned plan, valid or fallback, the order fields of the
\* sections read in list order are 1, 2, ..., k.
C10_OrdersAreOneToK ==
  Returned => \A i \in DOMAIN result[1].sections : result[1].sections[i].order = i

\* C10's case: a fallback that removed a section from inside the plan, so a
\* later section's order had to change.
C10_Witness ==
  /\ ReturnedFallback
  /\ \E i \in DOMAIN result[1].sections :
       \E s \in DOMAIN AttemptPlan.sections :
         /\ AttemptPlan.sections[s].id = result[1].sections[i].id
         /\ AttemptPlan.sections[s].order > i

(***************************************************************************)
(* Scenarios and argument defaults                                         *)
(***************************************************************************)
PlanEquipment == used_equipment_of(result[1].sections)

\* the catalog has an exercise of the section on the equipment at the level
Usable(section_id, eq, lvl) ==
  \E i \in DOMAIN EXERCISES :
    /\ EXERCISES[i].section = section_id
    /\ InSeq(EXERCISES[i].equipment, eq)
    /\ level_order(EXERCISES[i].level) <= level_order(lvl)

ScenarioA ==
  /\ duration_minutes = LongDuration
  /\ level = "intermediate"
  /\ allowed_equipment = <<"reformer">>

\* C11, as stated: in scenario A (duration 50, intermediate, ['reformer'])
\* the plan's equipment is {'reformer'} if mat has no usable intermediate item
\* for the closing block and {'reformer', 'mat'} otherwise; the first block is
\* footwork, the last is stretch, and the plan has items.
C11_ScenarioAMatWhenUsable ==
  (Returned /\ ScenarioA) =>
    /\ PlanEquipment = (IF Usable(FIXED_LAST.id, "mat", "intermediate")
                        THEN {"reformer", "mat"} ELSE {"reformer"})
    /\ result[1].sections[1].id = FIXED_FIRST.id
    /\ result[1].sections[Len(result[1].sections)].id = FIXED_LAST.id
    /\ result[1].total_exercises > 0

\* C11, amended: in scenario A the plan's equipment is {'reformer'} although
\* the catalog has mat items for the closing block, mat not being in the
\* allowed list; the first block is footwork, the last is stretch, and the
\* plan has items.
C11_ScenarioAReformerOnly ==
  (Returned /\ ScenarioA) =>
    /\ PlanEquipment = {"reformer"}
    /\ Len(result[1].sections) > 0
    /\ result[1].sections[1].id = FIXED_FIRST.id
    /\ result[1].sections[Len(result[1].sections)].id = FIXED_LAST.id
    /\ result[1].total_exercises > 0

\* C11's case: scenario A returned a plan, with a closing block that mat could
\* have served and sections of several items.
C11_Witness ==
  /\ Returned
  /\ ScenarioA
  /\ Usable(FIXED_LAST.id, "mat", "intermediate")
  /\ result[1].total_exercises > Len(result[1].sections)

ScenarioB ==
  /\ level = "beginner"
  /\ allowed_equipment = <<"reformer", "chair">>
  /\ max_retries >= 1

\* the item equipment of a plan in order of appearance
RECURSIVE EquipmentSequence(_)
EquipmentSequence(sections) ==
  IF sections = <<>> THEN <<>>
  ELSE [e \in DOMAIN Head(sections).exercises |-> Head(sections).exercises[e].equipment]
         \o EquipmentSequence(Tail(sections))

\* C12: in scenario B (beginner, ['reformer', 'chair']) generation yields a
\* plan, and in the plan's equipment sequence no 'reformer' comes after the
\* first 'chair'.
C12_ScenarioBYieldsLinearPlan ==
  ScenarioB =>
    /\ pc # "raised"
    /\ Returned =>
         LET flow == EquipmentSequence(result[1].sections)
         IN  \A i, j \in DOMAIN flow :
               (i < j /\ flow[i] = "chair") => flow[j] # "reformer"

\* C14: the final pruning step (remove the sections without exercises, then
\* renumber from 1) is idempotent: applied twice to a plan it gives the same
\* sections and order fields as applied once.
C14_PruneIdempotent ==
  /\ \A a \in DOMAIN attempt_log :
       attempt_log[a].plan # <<>> =>
         prune(prune(attempt_log[a].plan[1])).sections
           = prune(attempt_log[a].plan[1]).sections
  /\ ReturnedFallback => prune(result[1]).sections = result[1].sections

\* C14's case: the pruning step ran on a plan with several empty sections,
\* some of them between sections that were kept.
C14_Witness ==
  /\ ReturnedFallback
  /\ Len(result[1].sections) > 1
  /\ Len(result[1].sections) + 2 <= Len(AttemptPlan.sections)
  /\ \E i \in DOMAIN result[1].sections :
       \E s \in DOMAIN AttemptPlan.sections :
         /\ AttemptPlan.sections[s].id = result[1].sections[i].id
         /\ AttemptPlan.sections[s].order > i

ConfiguredLevels == {EXPERIENCE_LEVELS[i].id : i \in DOMAIN EXPERIENCE_LEVELS}

\* C15: the max_transitions field of the returned plan is the caller's
\* override when one is given, 0 included, and otherwise the configured value
\* of the level: 6 for beginner, intermediate and advanced, 8 for
\* advanced_plus.
C15_MaxTransitionsField ==
  (Returned /\ arguments.level \in ConfiguredLevels) =>
    result[1].max_transitions
      = (IF arguments.transitions # <<>> THEN arguments.transitions[1]
         ELSE IF arguments.level = "advanced_plus" THEN 8
         ELSE 6)

\* C15's case: an override of 0 at the level whose configured value is 8.
C15_Witness ==
  /\ Returned
  /\ arguments.level = "advanced_plus"
  /\ arguments.transitions = <<0>>
  /\ result[1].max_transitions = 0
  /\ result[1].total_exercises > 0

C17_MalformedListIsSingleton ==
  (Returned /\ arguments.equipment \in {<<>>, << <<>> >>}) =>
    /\ Len(result[1].equipment) = 1
    /\ PlanEquipment = {result[1].equipment[1]}

\* C17, amended: with the list absent the plan's equipment field is
\* ['reformer'] and every item uses reformer; with the list empty the field
\* stays [] and every item uses mat; neither call raises.
C17_AbsentIsReformerEmptyIsMat ==
  /\ (pc # "ready" /\ arguments.equipment \in {<<>>, << <<>> >>} /\ arguments.retries >= 1)
       => pc # "raised"
  /\ (Returned /\ arguments.equipment = <<>>) =>
       /\ result[1].equipment = <<"reformer">>
       /\ PlanEquipment = {"reformer"}
  /\ (Returned /\ arguments.equipment = << <<>> >>) =>
       /\ result[1].equipment = <<>>
       /\ PlanEquipment = {"mat"}

\* C17's case: a plan returned for an empty list.
C17_Witness ==
  /\ Returned
  /\ arguments.equipment = << <<>> >>
  /\ result[1].total_exercises > 0
  /\ PlanEquipment = {"mat"}

(***************************************************************************)
(* Section order and default allocation                                    *)
(***************************************************************************)
\* position of a reorderable block in the catalog's declaration
DeclaredAt(section_id) ==
  CHOOSE k \in DOMAIN FLEXIBLE_SECTIONS : FLEXIBLE_SECTIONS[k].id = section_id

\* the ids of the reorderable blocks as an attempt ordered them
MiddleOf(order) == SubSeq(order, 2, Len(order) - 1)

SecondaryCapable(section_id) ==
  /\ Len(allowed_equipment) > 1
  /\ Usable(section_id, allowed_equipment[2], level)

\* C19: _optimize_section_order returns a permutation of the 8 reorderable
\* blocks in which every block without usable secondary-equipment items at
\* the level precedes every block with one, each group in declaration order;
\* without secondary equipment the result is the declaration order.  Stated
\* where _generate_class_attempt has just ordered the sections.
C19_SecondaryCapableLast ==
  (attempt >= 1 /\ (pc = "raised" \/ (pc = "section" /\ idx = 0))) =>
    LET middle == MiddleOf(attempt_log[attempt].order)
    IN  /\ Len(middle) = 8
        /\ Len(FLEXIBLE_SECTIONS) = 8
        /\ \A k \in DOMAIN FLEXIBLE_SECTIONS :
             Cardinality({i \in DOMAIN middle : middle[i] = FLEXIBLE_SECTIONS[k].id}) = 1
        /\ \A i, j \in DOMAIN middle :
             i < j =>
               /\ ~(SecondaryCapable(middle[i]) /\ ~SecondaryCapable(middle[j]))
               /\ (SecondaryCapable(middle[i]) <=> SecondaryCapable(middle[j]))
                    => DeclaredAt(middle[i]) < DeclaredAt(middle[j])
        /\ Len(allowed_equipment) <= 1 =>
             middle = [k \in DOMAIN FLEXIBLE_SECTIONS |-> FLEXIBLE_SECTIONS[k].id]

\* C19's case: an attempt whose order moved a block with secondary items
\* behind a block declared after it.
C19_Witness ==
  /\ attempt >= 1
  /\ \E i, j \in DOMAIN MiddleOf(attempt_log[1].order) :
       /\ i < j
       /\ ~SecondaryCapable(MiddleOf(attempt_log[1].order)[i])
       /\ SecondaryCapable(MiddleOf(attempt_log[1].order)[j])
       /\ DeclaredAt(MiddleOf(attempt_log[1].order)[i])
            > DeclaredAt(MiddleOf(attempt_log[1].order)[j])

\* the number of items of a block that the allocator counts for an equipment:
\* items of the level, and only for equipment of the allowed list
Counted(section_id, eq) ==
  IF InSeq(allowed_equipment, eq)
  THEN Cardinality({i \in DOMAIN EXERCISES :
                      /\ EXERCISES[i].section = section_id
                      /\ InSeq(EXERCISES[i].equipment, eq)
                      /\ level_order(EXERCISES[i].level) <= level_order(level)})
  ELSE 0

Primary == IF Len(allowed_equipment) > 0 THEN allowed_equipment[1] ELSE "mat"

\* the assignment of a block by the chain primary, secondary, mat, most
\* items, primary
ChainAssigns(section_id, eq) ==
  IF Counted(section_id, Primary) > 0 THEN eq = Primary
  ELSE IF Len(allowed_equipment) > 1 /\ Counted(section_id, allowed_equipment[2]) > 0
  THEN eq = allowed_equipment[2]
  ELSE IF Counted(section_id, "mat") > 0 THEN eq = "mat"
  ELSE IF \E other \in Range(allowed_equipment) : Counted(section_id, other) > 0
  THEN /\ eq \in Range(allowed_equipment)
       /\ \A other \in Range(allowed_equipment) :
            Counted(section_id, other) <= Counted(section_id, eq)
  ELSE eq = Primary

JustAllocated == attempt >= 1 /\ (pc = "raised" \/ (pc = "section" /\ idx = 0))

\* C20, as stated: in the default assignment the closing block gets mat if
\* mat has usable items for it and primary equipment otherwise; every other
\* block gets primary if usable, else secondary, else mat, else the equipment
\* with the most usable items, else primary.
C20_ClosingMatElsePrimary ==
  JustAllocated =>
    LET log == attempt_log[attempt]
    IN  \A k \in DOMAIN log.order :
          IF log.order[k] = FIXED_LAST.id
          THEN log.initial[k] = (IF Counted(log.order[k], "mat") > 0 THEN "mat" ELSE Primary)
          ELSE ChainAssigns(log.order[k], log.initial[k])

\* C20, amended: the closing block gets mat if mat is in the allowed list and
\* has usable items for it; otherwise it is assigned like every other block:
\* primary if usable, else secondary, else mat, else the equipment with the
\* most usable items, else primary.
C20_ClosingMatElseChain ==
  JustAllocated =>
    LET log == attempt_log[attempt]
    IN  /\ Len(log.initial) = Len(log.order)
        /\ \A k \in DOMAIN log.order :
             IF log.order[k] = FIXED_LAST.id /\ Counted(log.order[k], "mat") > 0
             THEN log.initial[k] = "mat"
             ELSE ChainAssigns(log.order[k], log.initial[k])

\* C20's case: a default assignment whose closing block has no counted mat
\* item and goes to an equipment that is neither mat nor primary.
C20_Witness ==
  /\ JustAllocated
  /\ Counted(FIXED_LAST.id, "mat") = 0
  /\ ~(attempt_log[attempt].initial[Len(attempt_log[attempt].initial)] \in {"mat", Primary})

(***************************************************************************)
(* Two calls on one builder                                                *)
(***************************************************************************)
\* the two calls: the one running and the one suspended
Frames == {call_frame, suspended}

Finished(f) == f.pc \in {"returned", "raised"}

\* the cap the call's own arguments give: line 651-652
OwnCap(f) ==
  IF f.arguments.transitions = <<>>
  THEN _get_level_config(f.arguments.level).max_transitions
  ELSE f.arguments.transitions[1]

\* the plan of the call's own returned attempt, as its own validation saw it
OwnAttemptPlan(f) == f.attempt_log[f.returned_attempt].plan[1]

\* C13: two generate_class calls with identical arguments that drew the same
\* values from the random source end alike, with the same plan or the same
\* error; and at the same point of their run (same attempt, same section)
\* all their locals are equal.
C13_SameDrawsSamePlan ==
  (arguments = suspended.arguments /\ draws = suspended.draws) =>
    /\ (Finished(call_frame) /\ Finished(suspended)) =>
         /\ result = suspended.result
         /\ error = suspended.error
         /\ pc = suspended.pc
    /\ (pc = suspended.pc /\ attempt = suspended.attempt /\ idx = suspended.idx) =>
         call_frame = suspended

\* C13's case: two calls with the same arguments and the same draws have both
\* returned a plan with items, the draws including the choice among several
\* candidate exercises.
C13_Witness ==
  /\ pc = "returned"
  /\ suspended.pc = "returned"
  /\ arguments = suspended.arguments
  /\ draws = suspended.draws
  /\ Len(draws.allocations) = 1
  /\ Len(draws.picks) > Len(result[1].sections)
  /\ result[1].total_exercises > 0

\* C18: under every interleaving of two generate_class calls on one builder,
\* the plan a call is building carries that call's own arguments, and each
\* returned plan carries its own call's arguments, is the plan of its own
\* attempt (pruned on the best-effort path), holds only items its own level
\* and equipment list allow, has no empty section, has orders 1..k and has at
\* most its own cap of transitions.
C18_InterleavedCallsIndependent ==
  \A f \in Frames :
    /\ f.class_plan # <<>> =>
         /\ f.class_plan[1].duration_minutes = f.arguments.duration
         /\ f.class_plan[1].level = f.arguments.level
         /\ f.class_plan[1].equipment = f.arguments.equipment[1]
         /\ f.class_plan[1].max_transitions = OwnCap(f)
    /\ f.pc = "returned" =>
         LET plan == f.result[1]
         IN  /\ plan.duration_minutes = f.arguments.duration
             /\ plan.level = f.arguments.level
             /\ plan.equipment = f.arguments.equipment[1]
             /\ plan.max_transitions = OwnCap(f)
             /\ plan = (IF f.is_valid THEN OwnAttemptPlan(f) ELSE prune(OwnAttemptPlan(f)))
             /\ \A s \in DOMAIN plan.sections :
                  /\ Len(plan.sections[s].exercises) > 0
                  /\ plan.sections[s].order = s
                  /\ \A e \in DOMAIN plan.sections[s].exercises :
                       LET item == plan.sections[s].exercises[e]
                       IN  /\ InSeq(f.arguments.equipment[1], item.equipment)
                           /\ \E i \in DOMAIN EXERCISES :
                                /\ EXERCISES[i].id = item.id
                                /\ EXERCISES[i].section = plan.sections[s].id
                                /\ InSeq(EXERCISES[i].equipment, item.equipment)
                                /\ _level_matches(EXERCISES[i].level, f.arguments.level)
             /\ OwnCap(f) >= 0 => plan.transitions <= OwnCap(f)

\* C18's case: two calls with different levels, equipment and caps have both
\* returned a plan; the one with cap 0 reports no transition and the other
\* reports some.
C18_Witness ==
  /\ pc = "returned"
  /\ suspended.pc = "returned"
  /\ arguments.level # suspended.arguments.level
  /\ arguments.equipment # suspended.arguments.equipment
  /\ max_transitions = 0
  /\ result[1].transitions = 0
  /\ suspended.result[1].transitions > 0
  /\ Len(result[1].sections) > 2

(***************************************************************************)
(* The secondary block and flow enforcement                                *)
(***************************************************************************)
\* _allocate_equipment_blocks has returned to the attempt under way
Allocated == attempt >= 1 /\ pc = "section" /\ idx = 0

\* the first attempt of a call has its allocation; the sections, the allowed
\* list and the level are those of every attempt of the call
FirstAllocated == Allocated /\ attempt = 1

\* every run the allocator can make on the sections of the attempt
AllocatorRuns == _allocate_equipment_blocks(ordered_sections, allowed_equipment, level)

\* the run the attempt's allocation came from
IsAttemptRun(d) ==
  /\ ~d.outcome.raised
  /\ d.outcome.allocations = equipment_allocations
  /\ d.outcome.bounced = attempt_log[attempt].bounced

Secondary == IF Len(allowed_equipment) > 1 THEN allowed_equipment[2] ELSE None

\* what C21 says of a secondary block apart from its length: consecutive
\* indices, neither the first block nor the closing block, each with a usable
\* secondary item, each reassigned to the secondary equipment
InteriorEligibleRun(d) ==
  /\ \A k \in 1..(Len(d.block) - 1) : d.block[k + 1] = d.block[k] + 1
  /\ \A k \in DOMAIN d.block :
       /\ d.block[k] > 0
       /\ d.block[k] < Len(ordered_sections)
       /\ At(ordered_sections, d.block[k]).id # FIXED_LAST.id
       /\ Counted(At(ordered_sections, d.block[k]).id, Secondary) > 0
       /\ At(d.planned, d.block[k]) = Secondary

\* C21, as stated: a secondary block is a run of 3 to 6 consecutive block
\* indices, none the first or the closing block, each with a usable secondary
\* item.
C21_RunOfThreeToSix ==
  FirstAllocated =>
    \A d \in AllocatorRuns :
      d.block # <<>> => (Len(d.block) >= 3 /\ Len(d.block) <= 6 /\ InteriorEligibleRun(d))

\* C21, amended: a secondary block is a run of 1 to 6 consecutive block
\* indices, at most the number drawn (3 to 6) and shorter when fewer
\* consecutive eligible blocks follow the start; none is the first or the
\* closing block and each has a usable secondary item.
C21_RunOfOneToSix ==
  FirstAllocated =>
    \A d \in AllocatorRuns :
      /\ d.block # <<>> <=> d.start_idx # -1
      /\ d.block # <<>> =>
           /\ Len(d.block) >= 1
           /\ Len(d.block) <= d.num_secondary
           /\ d.num_secondary >= 3
           /\ d.num_secondary <= 6
           /\ d.block[1] = d.start_idx
           /\ InteriorEligibleRun(d)

\* C21's case: the attempt's allocation came from a run whose secondary block
\* is shorter than 3.
C21_Witness ==
  /\ Allocated
  /\ \E d \in AllocatorRuns :
       /\ IsAttemptRun(d)
       /\ d.block # <<>>
       /\ Len(d.block) < 3

\* the blocks after the secondary block of a run, as 0-based indices
AfterBlock(d) == {i \in 0..(Len(d.planned) - 1) : i > d.block[Len(d.block)]}

\* the assignment of a block after the secondary block by the chain allowed
\* mat, secondary, primary, equipment with the most items, else unchanged
PostRunAssigns(section_id, eq, unchanged) ==
  IF InSeq(allowed_equipment, "mat") /\ Counted(section_id, "mat") > 0 THEN eq = "mat"
  ELSE IF Counted(section_id, Secondary) > 0 THEN eq = Secondary
  ELSE IF Counted(section_id, Primary) > 0 THEN eq = Primary
  ELSE IF \E other \in Range(allowed_equipment) : Counted(section_id, other) > 0
  THEN /\ eq \in Range(allowed_equipment)
       /\ \A other \in Range(allowed_equipment) :
            Counted(section_id, other) <= Counted(section_id, eq)
  ELSE eq = unchanged

\* C22, as stated: before flow enforcement every block after the secondary
\* block, the closing block included, gets the first applicable of allowed and
\* usable mat, usable secondary, usable primary, an allowed equipment with
\* usable items; so it gets primary only when neither allowed mat nor
\* secondary has a usable item for it.
C22_PostRunPrimaryLastResort ==
  FirstAllocated =>
    \A d \in AllocatorRuns :
      d.block # <<>> =>
        \A i \in AfterBlock(d) :
          LET section_id == At(ordered_sections, i).id
          IN  /\ PostRunAssigns(section_id, At(d.planned, i),
                                At(attempt_log[attempt].initial, i))
              /\ At(d.planned, i) = Primary =>
                   /\ Counted(section_id, "mat") = 0
                   /\ Counted(section_id, Secondary) = 0

\* C22, amended: the same chain; a block after the secondary block gets a
\* primary equipment other than mat only when neither allowed mat nor
\* secondary has a usable item for it, and when the primary equipment is mat
\* it gets mat whenever mat has a usable item.
C22_PostRunChain ==
  FirstAllocated =>
    \A d \in AllocatorRuns :
      d.block # <<>> =>
        /\ FIXED_LAST.id = At(ordered_sections, Len(d.planned) - 1).id
        /\ (Len(d.planned) - 1) \in AfterBlock(d)
        /\ \A i \in AfterBlock(d) :
             LET section_id == At(ordered_sections, i).id
             IN  /\ PostRunAssigns(section_id, At(d.planned, i),
                                   At(attempt_log[attempt].initial, i))
                 /\ (At(d.planned, i) = Primary /\ Primary # "mat") =>
                      /\ Counted(section_id, "mat") = 0
                      /\ Counted(section_id, Secondary) = 0
                 /\ (Primary = "mat" /\ Counted(section_id, "mat") > 0) =>
                      At(d.planned, i) = Primary

\* C22's case: the attempt's allocation came from a run with a secondary
\* block, after which one block went to the secondary equipment and the
\* closing block, without usable mat or secondary item, to the primary one.
C22_Witness ==
  /\ Allocated
  /\ Primary # "mat"
  /\ \E d \in AllocatorRuns :
       /\ IsAttemptRun(d)
       /\ d.block # <<>>
       /\ \E i, j \in AfterBlock(d) :
            /\ At(d.planned, i) = Secondary
            /\ At(d.planned, j) = Primary
            /\ Counted(At(ordered_sections, j).id, Secondary) = 0

\* _generate_class_attempt has returned and its plan has been validated
AttemptDone == attempt >= 1 /\ pc \in {"attempt", "returned"}

\* no equipment of the allowed list has an item of the block at the level
NothingUsable(section_id) ==
  \A eq \in Range(allowed_equipment) : ~Usable(section_id, eq, level)

\* the ids of the blocks an attempt left without exercises
EmptyBlocks(log) ==
  {log.plan[1].sections[s].id :
     s \in {t \in DOMAIN log.plan[1].sections : log.plan[1].sections[t].exercises = <<>>}}

\* the blocks whose equipment in an allocation has no usable item
Unusable(allocations) ==
  {k \in DOMAIN ordered_sections : ~Usable(ordered_sections[k].id, allocations[k], level)}

\* C23: in every attempt, and for every run the allocator can make, a block
\* is allocated an equipment without usable items only if no equipment of
\* the allowed list has a usable item for it; a block is empty exactly when
\* its allocated equipment has no usable item; so the empty blocks are the
\* same for every run of the allocator and in every attempt of a call.
C23_EmptyOnlyWhenNothingUsable ==
  /\ FirstAllocated =>
       \A d \in AllocatorRuns :
         ~d.outcome.raised =>
           /\ \A k \in Unusable(d.outcome.allocations) :
                NothingUsable(ordered_sections[k].id)
           /\ Unusable(d.outcome.allocations) = Unusable(equipment_allocations)
  /\ AttemptDone =>
       /\ \A k \in DOMAIN attempt_log[attempt].order :
            LET log == attempt_log[attempt]
                is_empty == log.plan[1].sections[k].exercises = <<>>
            IN  /\ log.plan[1].sections[k].id = log.order[k]
                /\ is_empty <=> ~Usable(log.order[k], log.allocations[k], level)
                /\ is_empty => NothingUsable(log.order[k])
       /\ \A a \in DOMAIN attempt_log :
            EmptyBlocks(attempt_log[a]) = EmptyBlocks(attempt_log[1])

\* C23's case: two attempts of a call with different plans and the same empty
\* blocks, next to blocks that have exercises.
C23_Witness ==
  /\ AttemptDone
  /\ attempt = 2
  /\ attempt_log[1].plan # attempt_log[2].plan
  /\ EmptyBlocks(attempt_log[2]) # {}
  /\ Cardinality(EmptyBlocks(attempt_log[2])) < Len(attempt_log[2].order) - 1

\* the longest allocation list handed to _enforce_linear_flow on its own
MaxFlowLen == 4

\* allocation lists of up to MaxFlowLen blocks over the primary equipment, the
\* secondary equipment and mat, for the leading sections of the attempt
FlowInputs ==
  UNION {[1..n -> ({Primary, Secondary} \ {None}) \cup {"mat"}] : n \in 0..MaxFlowLen}

\* the counts _allocate_equipment_blocks hands to _enforce_linear_flow (line 458)
SectionCounts == section_exercise_counts(ordered_sections, level, allowed_equipment)

\* the lists _enforce_linear_flow is applied to: the bounded lists and the
\* lists the allocator hands to it
FlowCases == FlowInputs \cup {d.planned : d \in {r \in AllocatorRuns : ~r.outcome.raised}}

\* the call of _enforce_linear_flow on a list
Flow(allocations, counts) ==
  enforce_state(allocations, counts, ordered_sections, allowed_equipment)

KeepsExecutable(allocations, returned) ==
  /\ Len(returned) = Len(allocations)
  /\ \A k \in DOMAIN allocations :
       Usable(ordered_sections[k].id, allocations[k], level)
         => Usable(ordered_sections[k].id, returned[k], level)

AllKeepExecutable(counts) ==
  \A allocations \in FlowCases : KeepsExecutable(allocations, Flow(allocations, counts).result)

\* C24: _enforce_linear_flow returns a list of the length of its input, and a
\* block whose input equipment has a usable item has an equipment with a
\* usable item in the result.
C24_RepairKeepsExecutable ==
  FirstAllocated => AllKeepExecutable(SectionCounts)

\* C24's case: the allocation of the attempt is a repaired one, and a block
\* with a usable item was given another equipment.
C24_Witness ==
  /\ FirstAllocated
  /\ \E d \in AllocatorRuns :
       /\ IsAttemptRun(d)
       /\ \E k \in DOMAIN d.planned :
            /\ d.planned[k] # equipment_allocations[k]
            /\ Usable(ordered_sections[k].id, d.planned[k], level)

\* the scan of _enforce_linear_flow step by step: element i + 1 is the scan
\* before it looks at index i (0-based)
RECURSIVE FlowTraceFrom(_, _, _)
FlowTraceFrom(trace, allocations, counts) ==
  IF Len(trace) > Len(allocations) THEN trace
  ELSE FlowTraceFrom(Append(trace, enforce_step(Len(trace) - 1, trace[Len(trace)], counts,
                                                ordered_sections, allowed_equipment)),
                     allocations, counts)

FlowTrace(allocations, counts) ==
  FlowTraceFrom(<< [result |-> allocations, caller |-> allocations, shared |-> FALSE,
                    abandoned |-> {}, current_eq |-> None, bounced |-> {}] >>,
                allocations, counts)

\* the equipment left behind when the scan looks at index i
AbandonedAt(trace, allocations, i) ==
  LET before == At(trace, i)
  IN  IF before.current_eq # None /\ At(allocations, i) # before.current_eq
      THEN before.abandoned \cup {before.current_eq}
      ELSE before.abandoned

IsReturn(trace, allocations, i) == At(allocations, i) \in AbandonedAt(trace, allocations, i)

\* the repair of C25 at index i of a list
RepairedAsStated(trace, allocations, i) ==
  LET before == At(trace, i)
      after == At(trace, i + 1)
      eq == At(allocations, i)
      section_id == At(ordered_sections, i).id
      active_usable == before.current_eq # None /\ Counted(section_id, before.current_eq) > 0
      mat_usable == InSeq(allowed_equipment, "mat") /\ Counted(section_id, "mat") > 0
  IN  /\ At(before.result, i) = eq
      /\ IF ~IsReturn(trace, allocations, i)
         THEN /\ At(after.result, i) = eq
              /\ after.bounced = before.bounced
         ELSE IF active_usable
         THEN At(after.result, i) = before.current_eq /\ after.bounced = before.bounced
         ELSE IF mat_usable
         THEN At(after.result, i) = "mat" /\ after.bounced = before.bounced
         ELSE /\ At(after.result, i) = eq
              /\ after.bounced = before.bounced \cup {i}
              /\ eq \notin after.abandoned
              /\ (i + 1 < Len(allocations) /\ At(allocations, i + 1) = eq)
                   => ~IsReturn(trace, allocations, i + 1)
      /\ after.current_eq = At(after.result, i)

RepairsAsStated(trace, allocations, flow) ==
  /\ trace[Len(trace)].result = flow.result
  /\ trace[Len(trace)].bounced = flow.bounced
  /\ \A i \in 0..(Len(allocations) - 1) : RepairedAsStated(trace, allocations, i)

AllRepairAsStated(counts) ==
  \A allocations \in FlowCases :
    Len(allocations) > 1 =>
      RepairsAsStated(FlowTrace(allocations, counts), allocations, Flow(allocations, counts))

\* C25: in _enforce_linear_flow a block whose equipment has been left behind
\* is given the active equipment if that has a usable item in the block, else
\* mat if mat is allowed and has one; otherwise it keeps its equipment, which
\* leaves the abandoned set, so that the next block on the same equipment is
\* no return.
C25_RepairPriority ==
  FirstAllocated => AllRepairAsStated(SectionCounts)

\* C25's case: the allocation of the attempt keeps a return at one block, the
\* next block stays on the same equipment, and another block was repaired.
C25_Witness ==
  /\ FirstAllocated
  /\ \E d \in AllocatorRuns :
       /\ IsAttemptRun(d)
       /\ \E i \in d.outcome.bounced :
            /\ i + 1 < Len(d.planned)
            /\ At(d.planned, i + 1) = At(d.planned, i)
       /\ \E k \in DOMAIN d.planned : d.planned[k] # equipment_allocations[k]

\* an equipment reappears in the list after a different one followed it
HasReturn(allocations) ==
  \E i, j, k \in DOMAIN allocations :
    /\ i < j
    /\ j < k
    /\ allocations[i] = allocations[k]
    /\ allocations[j] # allocations[i]

UnchangedWithoutReturn(allocations, flow) ==
  /\ ~HasReturn(allocations) => (flow.result = allocations /\ flow.bounced = {})
  /\ flow.caller = allocations

AllUnchangedWithoutReturn(counts) ==
  \A allocations \in FlowCases :
    UnchangedWithoutReturn(allocations, Flow(allocations, counts))

\* C26: _enforce_linear_flow returns a list without an equipment return as it
\* is, and leaves the list of its caller as it was passed in.
C26_NoReturnNoChange ==
  FirstAllocated => AllUnchangedWithoutReturn(SectionCounts)

\* C26's case: the allocator handed over a list of two equipment types without
\* a return, which came back as it was, and can hand over a list with a
\* return, which comes back repaired.
C26_Witness ==
  /\ FirstAllocated
  /\ \E d \in AllocatorRuns :
       /\ IsAttemptRun(d)
       /\ ~HasReturn(d.planned)
       /\ Cardinality(Range(d.planned)) > 1
       /\ equipment_allocations = d.planned
  /\ \E d \in AllocatorRuns :
       /\ ~d.outcome.raised
       /\ HasReturn(d.planned)
       /\ d.outcome.allocations # d.planned

(***************************************************************************)
(* The exercise loop                                                       *)
(***************************************************************************)
\* the loop of line 773 is about to look at a candidate
AtCandidate == pc = "exercise" /\ available # {}

\* the candidate the step looked at
Visited(i) == i \in available /\ available' = available \ {i}

\* the step put candidate i into the section
Accepted(i) ==
  /\ Visited(i)
  /\ selected' = Append(selected, plan_exercise(EXERCISES[i], At(equipment_allocations, idx)))
  /\ section_has_exercise'

\* the last item placed before the section under way, in an earlier section
LastPlaced ==
  LET filled == {s \in DOMAIN class_plan[1].sections :
                   class_plan[1].sections[s].exercises # <<>>}
      s == CHOOSE t \in filled : \A u \in filled : u <= t
      exercises == class_plan[1].sections[s].exercises
  IN  exercises[Len(exercises)]

\* C27: the first candidate the loop looks at in a block is accepted, so the
\* block of a plan has an exercise whenever the catalog has one of the block
\* on its allocated equipment at the level.
C27_FirstCandidateAccepted ==
  /\ [][(AtCandidate /\ selected = <<>>) =>
          /\ \E i \in available : Accepted(i)
          /\ Len(selected') = 1]_vars
  /\ [](pc \in {"section", "exercise"} =>
          \A k \in DOMAIN class_plan[1].sections :
            Usable(class_plan[1].sections[k].id, equipment_allocations[k], level)
              => class_plan[1].sections[k].exercises # <<>>)

\* C27's case: the first item of a block was accepted although it takes more
\* than the block's budget and is a spring change on unchanged equipment with
\* the transition count at the cap.
C27_Witness ==
  /\ pc = "exercise"
  /\ Len(selected) = 1
  /\ remaining_time < 0
  /\ idx >= 1
  /\ \E s \in DOMAIN class_plan[1].sections : class_plan[1].sections[s].exercises # <<>>
  /\ LastPlaced.equipment = selected[1].equipment
  /\ LastPlaced.spring_setting # ""
  /\ selected[1].spring_setting \notin {"", LastPlaced.spring_setting}
  /\ max_transitions <= 0
  /\ class_plan[1].transitions >= max_transitions

\* what candidate i takes of the block's budget, in the unit of remaining_time
Cost(i) == EXERCISES[i].duration_seconds * TimeScale(ordered_sections)

\* candidate i asks for another sub-configuration than the last one
IsSpringChange(i) ==
  LET spring == effective_spring_of(EXERCISES[i], At(equipment_allocations, idx))
  IN  spring # "" /\ spring # last_spring

\* the block's equipment is not the one of the item placed last
EquipmentChanges == At(equipment_allocations, idx) # current_equipment

\* accepting candidate i is a sub-configuration change on unchanged equipment,
\* after the first item of the plan
Counts(i) == ~is_first_exercise /\ IsSpringChange(i) /\ ~EquipmentChanges

AtCap == class_plan[1].transitions >= max_transitions

\* the transition rule rejects candidate i
TransitionRejects(i) == Counts(i) /\ AtCap /\ selected # <<>>

\* the step passed over candidate i and the scan goes on
PassedOver(i) ==
  /\ Visited(i)
  /\ pc' = "exercise"
  /\ UNCHANGED << selected, remaining_time, class_plan, last_spring, current_equipment >>

\* C28, as stated: a candidate that is not the first item of its block is
\* accepted whenever the remaining budget is positive and the transition rule
\* does not reject it, whatever its duration.
C28_AcceptedWhileBudget ==
  [][\A i \in available :
       (pc = "exercise" /\ Visited(i) /\ selected # <<>> /\ remaining_time > 0
          /\ ~TransitionRejects(i))
         => Accepted(i)]_vars

\* C28, amended: a candidate that is not the first item of its block is
\* accepted exactly when its duration is at most the remaining budget and the
\* transition rule does not reject it; otherwise it is passed over and the
\* scan goes on; the scan ends once the budget is used up.
C28_AcceptedWhenItFits ==
  [][\A i \in available :
       (pc = "exercise" /\ selected # <<>>) =>
         /\ (Visited(i) /\ remaining_time > 0) =>
              IF Cost(i) <= remaining_time /\ ~TransitionRejects(i)
              THEN Accepted(i) /\ remaining_time' = remaining_time - Cost(i)
              ELSE PassedOver(i)
         /\ remaining_time <= 0 => (available' = {} /\ selected' = selected)]_vars

\* the candidates of the block under way that the scan passed over
PassedCandidates ==
  {i \in available_of(At(ordered_sections, idx).id, At(equipment_allocations, idx), level)
          \ available :
     \A k \in DOMAIN selected : selected[k].id # EXERCISES[i].id}

\* C28's case: with budget left and the count under the cap, a candidate that
\* takes more than the budget was passed over and the scan goes on.
C28_Witness ==
  /\ AtCandidate
  /\ selected # <<>>
  /\ remaining_time > 0
  /\ ~AtCap
  /\ \E i \in PassedCandidates : Cost(i) > remaining_time

Transitions == class_plan[1].transitions

\* C29, as stated: the first item of the plan and the first item placed into
\* a block leave the transition count as it is.
C29_FirstItemsNeverCounted ==
  [][\A i \in available :
       (pc = "exercise" /\ Accepted(i) /\ (is_first_exercise \/ selected = <<>>))
         => class_plan'[1].transitions = Transitions]_vars

\* C29, amended: the first item of the plan, and an item placed when the
\* block's equipment differs from that of the item placed before, leave the
\* transition count as it is; the first item placed into a block on unchanged
\* equipment adds one to the count when it is a sub-configuration change and
\* the count is under the cap, and leaves the count as it is otherwise.
C29_FirstOfBlockCountsOnSameEquipment ==
  [][\A i \in available :
       (pc = "exercise" /\ Accepted(i)) =>
         /\ (is_first_exercise \/ EquipmentChanges)
              => class_plan'[1].transitions = Transitions
         /\ selected = <<>> =>
              class_plan'[1].transitions =
                (IF ~is_first_exercise /\ ~EquipmentChanges /\ IsSpringChange(i) /\ ~AtCap
                 THEN Transitions + 1 ELSE Transitions)]_vars

\* C29's case: no block so far has more than one item, and the transition
\* count is positive: first items of blocks have raised it.
C29_Witness ==
  /\ pc = "exercise"
  /\ Len(selected) = 1
  /\ \A s \in DOMAIN class_plan[1].sections : Len(class_plan[1].sections[s].exercises) <= 1
  /\ Transitions >= 1
  /\ LastPlaced.equipment = selected[1].equipment
  /\ selected[1].spring_setting \notin {"", LastPlaced.spring_setting}

\* C30: with the transition count at the cap, a candidate the loop looks at
\* that would be a sub-configuration change on unchanged equipment is passed
\* over and the scan goes on, unless the block has no item yet: then it is
\* accepted and the count stays as it is.
C30_AtCapRejectedUnlessFirst ==
  [][\A i \in available :
       (pc = "exercise" /\ Visited(i) /\ AtCap /\ Counts(i)
          /\ ~budget_exhausted(remaining_time, section_has_exercise)) =>
         IF selected # <<>>
         THEN PassedOver(i)
         ELSE Accepted(i) /\ class_plan'[1].transitions = Transitions]_vars

\* C30's case: the block's first item was accepted at the cap as a
\* sub-configuration change on unchanged equipment, and a later candidate
\* that fits the budget was passed over.
C30_Witness ==
  /\ pc = "exercise"
  /\ selected # <<>>
  /\ max_transitions <= 0
  /\ AtCap
  /\ idx >= 1
  /\ \E s \in DOMAIN class_plan[1].sections : class_plan[1].sections[s].exercises # <<>>
  /\ LastPlaced.equipment = selected[1].equipment
  /\ LastPlaced.spring_setting # ""
  /\ selected[1].spring_setting \notin {"", LastPlaced.spring_setting}
  /\ \E i \in PassedCandidates : Cost(i) <= remaining_time

\* C31: an item accepted into a block whose equipment is not the active one
\* leaves the transition count as it is, makes the block's equipment the
\* active one, appends it to equipment_flow, and leaves as tracked
\* sub-configuration its own one if it has one and none otherwise.
C31_EquipmentChangeNotCounted ==
  [][\A i \in available :
       (pc = "exercise" /\ Accepted(i)) =>
         LET allocated_equipment == At(equipment_allocations, idx)
             spring == effective_spring_of(EXERCISES[i], allocated_equipment)
         IN  IF EquipmentChanges
             THEN /\ class_plan'[1].transitions = Transitions
                  /\ class_plan'[1].equipment_flow
                       = Append(class_plan[1].equipment_flow, allocated_equipment)
                  /\ current_equipment' = allocated_equipment
                  /\ last_spring' = (IF spring # "" THEN spring ELSE None)
             ELSE class_plan'[1].equipment_flow = class_plan[1].equipment_flow]_vars

\* C31's case: the first item of a block on another equipment than the item
\* placed before, which had a sub-configuration, has none: none is tracked,
\* and the equipment is the last of equipment_flow.
C31_Witness ==
  /\ pc = "exercise"
  /\ Len(selected) = 1
  /\ \E s \in DOMAIN class_plan[1].sections : class_plan[1].sections[s].exercises # <<>>
  /\ LastPlaced.equipment # selected[1].equipment
  /\ LastPlaced.spring_setting # ""
  /\ selected[1].spring_setting = ""
  /\ last_spring = None
  /\ class_plan[1].equipment_flow # <<>>
  /\ class_plan[1].equipment_flow[Len(class_plan[1].equipment_flow)] = selected[1].equipment
  /\ Transitions >= 1

(***************************************************************************)
(* The items of a plan                                                     *)
(***************************************************************************)
\* the item is a catalog exercise of the section that lists the equipment and
\* whose level rank is not above that of the target level
FromCatalog(item, section_id, eq) ==
  \E i \in DOMAIN EXERCISES :
    /\ EXERCISES[i].id = item.id
    /\ EXERCISES[i].section = section_id
    /\ InSeq(EXERCISES[i].equipment, eq)
    /\ level_order(EXERCISES[i].level) <= level_order(level)
    /\ item.equipment = eq
    /\ item.duration_seconds = EXERCISES[i].duration_seconds

\* C32: in the plan of an attempt, under way or done, and in the returned
\* plan, the items of a section all carry one equipment, the one allocated to
\* the section, and each is a catalog item of the section that lists this
\* equipment and whose level rank is not above the rank of the target level.
C32_ItemsOfAllocatedEquipment ==
  /\ (pc \in {"section", "exercise", "attempt"} /\ class_plan # <<>>) =>
       /\ \A k \in DOMAIN class_plan[1].sections :
            LET section == class_plan[1].sections[k]
            IN  /\ section.id = ordered_sections[k].id
                /\ \A e \in DOMAIN section.exercises :
                     FromCatalog(section.exercises[e], section.id, equipment_allocations[k])
       /\ pc = "exercise" =>
            \A e \in DOMAIN selected :
              FromCatalog(selected[e], At(ordered_sections, idx).id,
                          At(equipment_allocations, idx))
  /\ (Returned /\ result # <<>>) =>
       \A k \in DOMAIN result[1].sections :
         LET section == result[1].sections[k]
         IN  \A e \in DOMAIN section.exercises :
               /\ section.exercises[e].equipment = section.exercises[1].equipment
               /\ FromCatalog(section.exercises[e], section.id, section.exercises[1].equipment)

\* C32's case: a returned plan with a section of several items next to a
\* section on another equipment, while the catalog has an exercise of the
\* first section on its equipment above the target level.
C32_Witness ==
  /\ Returned
  /\ result # <<>>
  /\ \E k, m \in DOMAIN result[1].sections :
       LET section == result[1].sections[k]
       IN  /\ Len(section.exercises) >= 2
           /\ result[1].sections[m].exercises[1].equipment # section.exercises[1].equipment
           /\ \E i \in DOMAIN EXERCISES :
                /\ EXERCISES[i].section = section.id
                /\ InSeq(EXERCISES[i].equipment, section.exercises[1].equipment)
                /\ level_order(EXERCISES[i].level) > level_order(level)

(***************************************************************************)
(* Termination                                                             *)
(***************************************************************************)
\* generate_class has returned a plan or left with an exception
Ended == pc \in {"returned", "raised"}

\* C33: every call of generate_class ends, by a return or an exception; it
\* starts at most max_retries attempts; an attempt takes the 10 blocks in
\* order, each once, and an attempt that finishes has taken all 10; within a
\* block every step of the loop takes one candidate off the list, so that no
\* candidate is looked at twice.
C33_Terminates ==
  /\ <>Ended
  /\ [](pc # "ready" => attempt <= max_retries)
  /\ [](pc \in {"section", "exercise"} =>
          /\ Len(ordered_sections) = 10
          /\ Len(class_plan[1].sections) = idx
          /\ idx <= 10
          /\ pc = "exercise" => idx < 10)
  /\ [](AttemptDone => Len(attempt_log[attempt].plan[1].sections) = 10)
  /\ [][/\ attempt' \in {attempt, attempt + 1}
        /\ attempt' = attempt + 1 => (pc = "attempt" /\ range_has_next(attempt, max_retries))
        /\ (pc = "attempt" /\ pc' = "section") => attempt' = attempt + 1
        /\ (pc = "section" /\ pc' = "exercise") => idx' = idx
        /\ (pc = "exercise" /\ pc' = "section") => idx' = idx + 1
        /\ (pc = "exercise" /\ pc' = "exercise") =>
             /\ available' \subseteq available
             /\ available' # available
        /\ (pc = "section" /\ pc' = "exercise") =>
             available' = available_of(At(ordered_sections, idx).id,
                                       At(equipment_allocations, idx), level)]_vars

\* C33's case: a call has returned after max_retries attempts, more than one,
\* and in its last attempt a block had candidates that the loop left out.
C33_Witness ==
  /\ Returned
  /\ attempt = max_retries
  /\ attempt >= 2
  /\ \E k \in DOMAIN class_plan[1].sections :
       Cardinality(available_of(class_plan[1].sections[k].id, equipment_allocations[k], level))
         > Len(class_plan[1].sections[k].exercises)

(***************************************************************************)
(* Equipment outside the allowed list                                      *)
(***************************************************************************)
AllowedValues == Range(allowed_equipment)

\* every run of the allocator hands allowed equipment to the flow scan and
\* returns allowed equipment
RunsStayAllowed(runs) ==
  \A d \in runs :
    ~d.outcome.raised =>
      /\ Range(d.planned) \subseteq AllowedValues
      /\ Range(d.outcome.allocations) \subseteq AllowedValues

\* the flow scan puts no equipment into a list that is neither in the list
\* already nor in the allowed list
FlowStaysAllowed(counts) ==
  \A allocations \in FlowCases :
    Range(Flow(allocations, counts).result) \subseteq Range(allocations) \cup AllowedValues

PlanStaysAllowed(plan) ==
  /\ used_equipment_of(plan.sections) \subseteq AllowedValues
  /\ Range(plan.equipment_flow) \subseteq AllowedValues

\* C34: with a non-empty allowed list, the allocator plans and returns only
\* equipment of the list, the flow scan adds only equipment of the list, the
\* allocation of an attempt, the items and the equipment_flow of the plan under
\* construction, of every finished attempt and of the returned plan are of the
\* list; so mat occurs only when it is in the list.
C34_OnlyAllowedEquipment ==
  allowed_equipment # <<>> =>
    /\ FirstAllocated => (RunsStayAllowed(AllocatorRuns) /\ FlowStaysAllowed(SectionCounts))
    /\ Range(equipment_allocations) \subseteq AllowedValues
    /\ \A k \in DOMAIN class_plan : PlanStaysAllowed(class_plan[k])
    /\ \A a \in DOMAIN attempt_log : \A k \in DOMAIN attempt_log[a].plan :
         PlanStaysAllowed(attempt_log[a].plan[k])
    /\ \A k \in DOMAIN result : PlanStaysAllowed(result[k])

\* C34's case: a call without mat in its list has returned a plan with items,
\* and a block where only mat has a usable item was given the primary equipment.
C34_Witness ==
  /\ Returned
  /\ allowed_equipment # <<>>
  /\ ~InSeq(allowed_equipment, "mat")
  /\ result[1].total_exercises > 0
  /\ \E k \in DOMAIN equipment_allocations :
       /\ Usable(ordered_sections[k].id, "mat", level)
       /\ \A eq \in AllowedValues : ~Usable(ordered_sections[k].id, eq, level)
       /\ equipment_allocations[k] = allowed_equipment[1]

(***************************************************************************)
(* The time budget of a block                                              *)
(***************************************************************************)
\* section_seconds (lines 741-745) of the block with the given id, in the
\* unit of remaining_time
BudgetOf(section_id) ==
  LET section == CHOOSE s \in Range(ordered_sections) : s.id = section_id
  IN  section_seconds_of(section, duration_minutes, _get_level_config(level))

RECURSIVE TotalSeconds(_)
TotalSeconds(exercises) ==
  IF exercises = <<>> THEN 0
  ELSE exercises[1].duration_seconds + TotalSeconds(Tail(exercises))

WithinBudget(section_id, exercises) ==
  Len(exercises) # 1 =>
    TotalSeconds(exercises) * TimeScale(ordered_sections) <= BudgetOf(section_id)

PlanWithinBudget(plan) ==
  \A s \in DOMAIN plan.sections :
    WithinBudget(plan.sections[s].id, plan.sections[s].exercises)

\* C35: in the block under construction, in every block of the plan under
\* construction, of every finished attempt and of the returned plan, the
\* durations of the items add up to at most the block's budget, unless the
\* block holds exactly one item; what is left of the budget is the budget
\* less the durations of the items taken.
C35_SectionWithinBudget ==
  /\ pc = "exercise" =>
       /\ WithinBudget(At(ordered_sections, idx).id, selected)
       /\ remaining_time = BudgetOf(At(ordered_sections, idx).id)
                             - TotalSeconds(selected) * TimeScale(ordered_sections)
  /\ \A k \in DOMAIN class_plan : PlanWithinBudget(class_plan[k])
  /\ \A a \in DOMAIN attempt_log : \A k \in DOMAIN attempt_log[a].plan :
       PlanWithinBudget(attempt_log[a].plan[k])
  /\ \A k \in DOMAIN result : PlanWithinBudget(result[k])

\* C35's case: the returned plan has a block of several items, and a
\* candidate of the block is not in it that is longer than what the items
\* left of the budget.
C35_Witness ==
  /\ Returned
  /\ \E s \in DOMAIN result[1].sections :
       LET block == result[1].sections[s]
           left == BudgetOf(block.id) - TotalSeconds(block.exercises) * TimeScale(ordered_sections)
       IN  /\ Len(block.exercises) >= 2
           /\ \E i \in DOMAIN EXERCISES :
                /\ EXERCISES[i].section = block.id
                /\ InSeq(EXERCISES[i].equipment, block.exercises[1].equipment)
                /\ _level_matches(EXERCISES[i].level, level)
                /\ \A e \in DOMAIN block.exercises : block.exercises[e].id # EXERCISES[i].id
                /\ EXERCISES[i].duration_seconds * TimeScale(ordered_sections) > left

(***************************************************************************)
(* Mat and items without sub-configuration                                 *)
(***************************************************************************)
\* the catalog exercise an item of a plan was made from
CatalogItem(item) == CHOOSE ex \in Range(EXERCISES) : ex.id = item.id

\* the step put candidate i into the section, whatever it wrote for it
Taken(i) == Visited(i) /\ Len(selected') = Len(selected) + 1

NoSpringOnMat(exercises) ==
  \A e \in DOMAIN exercises :
    exercises[e].equipment = "mat" => exercises[e].spring_setting = ""

PlanNoSpringOnMat(plan) ==
  \A s \in DOMAIN plan.sections : NoSpringOnMat(plan.sections[s].exercises)

\* C36: a step that takes an item into a block allocated to mat, or an item
\* whose catalog sub-configuration is empty, leaves the transition count as it
\* is; every item on mat, in the block under construction and in every plan,
\* has an empty spring_setting.
C36_MatHasNoSpring ==
  /\ [][\A i \in available :
          (pc = "exercise" /\ Taken(i)
             /\ (At(equipment_allocations, idx) = "mat" \/ EXERCISES[i].spring_setting = "")) =>
            class_plan'[1].transitions = class_plan[1].transitions]_vars
  /\ [](/\ NoSpringOnMat(selected)
        /\ \A k \in DOMAIN class_plan : PlanNoSpringOnMat(class_plan[k])
        /\ \A a \in DOMAIN attempt_log : \A k \in DOMAIN attempt_log[a].plan :
             PlanNoSpringOnMat(attempt_log[a].plan[k])
        /\ \A k \in DOMAIN result : PlanNoSpringOnMat(result[k]))

\* C36's case: a block on mat holds two items whose catalog sub-configurations
\* are not empty and differ, the second was taken after the first item of the
\* plan, and no transition has been counted.
C36_Witness ==
  /\ pc = "exercise"
  /\ Len(selected) >= 2
  /\ selected[1].equipment = "mat"
  /\ CatalogItem(selected[1]).spring_setting # ""
  /\ CatalogItem(selected[2]).spring_setting # ""
  /\ CatalogItem(selected[1]).spring_setting # CatalogItem(selected[2]).spring_setting
  /\ selected[2].spring_setting = ""
  /\ class_plan[1].transitions = 0

(***************************************************************************)
(* Saved classes                                                           *)
(***************************************************************************)
\* the columns update_class never writes
KeptColumns == {"duration_minutes", "level", "equipment", "max_transitions", "created_at"}

\* the class_data update_class can be handed
UpdateData == {EditedClass, PartialClass, NoClass}

\* table after is table before but for the row of class_id, which keeps the
\* columns update_class never writes
OnlyRowChanged(before, after, class_id) ==
  /\ DOMAIN after = DOMAIN before
  /\ \A i \in DOMAIN before :
       IF i = class_id
       THEN \A column \in KeptColumns : after[i][column] = before[i][column]
       ELSE after[i] = before[i]

\* what a call of update_class does to the table as it is
UpdateAsStated(class_id, class_data, name, description) ==
  LET done == update_class(saved_classes, now, class_id, class_data, name, description)
  IN  /\ OnlyRowChanged(saved_classes, done.saved, class_id)
      /\ class_id \in DOMAIN saved_classes =>
           /\ name = None => done.saved[class_id].name = saved_classes[class_id].name
           /\ description = None =>
                done.saved[class_id].description = saved_classes[class_id].description
           /\ done.raised = None =>
                /\ done.success
                /\ done.saved[class_id].sections = json_dumps(class_data.sections)
                /\ done.saved[class_id].total_exercises = class_data.total_exercises
                /\ done.saved[class_id].transitions = class_data.transitions
                /\ done.saved[class_id].updated_at = now
                /\ name # None => done.saved[class_id].name = name
                /\ description # None => done.saved[class_id].description = description
      /\ class_id \notin DOMAIN saved_classes =>
           /\ done.saved = saved_classes
           /\ done.raised = None => ~done.success
      /\ done.raised = None <=> update_class_keys \subseteq class_data.keys

\* what a call of delete_class does to the table as it is when no row has the id
DeleteAsStated(class_id) ==
  class_id \notin DOMAIN saved_classes =>
    /\ delete_class(saved_classes, class_id).saved = saved_classes
    /\ ~delete_class(saved_classes, class_id).success

\* C37: on every table the requests can make, update_class with any id, class
\* data, name and description leaves every other row as it is and leaves
\* duration_minutes, level, equipment, max_transitions and created_at of the
\* row with the id as they are; it leaves name and description as they are
\* when they are not given, and writes sections, total_exercises, transitions,
\* updated_at and the name and description given; with an id no row has,
\* update_class and delete_class return False and leave the table as it is
\* (update_class raises KeyError, whatever the id, when class_data lacks a key
\* it reads).
\* A request PUT /classes/<id> changes the table no further, and a request PUT
\* or DELETE with an id no row has leaves the table as it is; the answer 404
\* is given only then.
C37_UpdateFrame ==
  /\ [](\A class_id \in ClassIds :
          /\ DeleteAsStated(class_id)
          /\ \A class_data \in UpdateData, name \in {None, "Evening"}, description \in {None, ""} :
               UpdateAsStated(class_id, class_data, name, description))
  /\ [][now' = now =>
          /\ response'.handler = "update_saved_class" =>
               OnlyRowChanged(saved_classes, saved_classes', response'.class_id)
          /\ (response'.handler \in {"update_saved_class", "delete_saved_class"}
                /\ response'.class_id \notin DOMAIN saved_classes) =>
               /\ saved_classes' = saved_classes
               /\ response'.status \in {400, 404, 500}
          /\ response'.status = 404 =>
               /\ saved_classes' = saved_classes
               /\ response'.class_id \notin DOMAIN saved_classes]_vars

\* C37's case: PUT with an id no row has was answered 404 while the table
\* holds an updated row, with the sections of the update and the duration,
\* level, equipment and max_transitions it was saved with, and a row as it
\* was saved.
C37_Witness ==
  /\ response = [handler |-> "update_saved_class", class_id |-> MaxSaved + 1, status |-> 404]
  /\ \E i \in DOMAIN saved_classes, j \in DOMAIN saved_classes :
       /\ i # j
       /\ saved_classes[i].sections = json_dumps(EditedClass.sections)
       /\ saved_classes[i].updated_at > saved_classes[i].created_at
       /\ saved_classes[i].duration_minutes = GeneratedClass.duration_minutes
       /\ saved_classes[i].level = GeneratedClass.level
       /\ saved_classes[i].equipment = json_dumps(GeneratedClass.equipment)
       /\ saved_classes[i].max_transitions = GeneratedClass.max_transitions
       /\ saved_classes[i].name = "Evening"
       /\ saved_classes[j] = inserted_row(saved_classes[j].created_at, GeneratedClass,
                                          "Morning", "")
====
